---- MODULE Spec2Model ----
(***************************************************************************)
(* pyblhost: host side of the NXP MCUBOOT/KBOOT bootloader protocol.       *)
(* Model of src/pyblhost/pyblhost.py: the CRC and frame codec, the stream  *)
(* parser (BlhostDataParser.parse), the inbound dispatcher                 *)
(* (BlhostBase._data_callback, run by the reader thread) and the driver    *)
(* operations ping, reset, upload/_upload and read.                        *)
(***************************************************************************)
EXTENDS Integers, Sequences, FiniteSets, TLC

(***************************************************************************)
(* Bounds of the model.                                                    *)
(***************************************************************************)
\* Frames per inbound byte stream fed to the parser.
MaxFrames == 2
\* Packets the reader dispatches in one run of the engine.
MaxInbound == 6
\* Largest ping_repeat argument.
MaxPingRepeat == 1
\* Largest file given to upload, in 16-byte blocks.
MaxBlocks == 3
\* Largest byte_count given to read.
MaxByteCount == 3

(***************************************************************************)
(* FramingPacketConstants, CommandTags, ResponseTags, StatusCodes.         *)
(***************************************************************************)
StartByte == 90
Type_Ack == 161
Type_Nak == 162
Type_AckAbort == 163
Type_Command == 164
Type_Data == 165
Type_Ping == 166
Type_PingResponse == 167

FlashEraseRegion == 2
ReadMemory == 3
WriteMemory == 4
GetProperty == 7
Reset == 11
ReliableUpdate == 18

GenericResponse == 160
ReadMemoryResponse == 163
GetPropertyResponse == 167
FlashReadOnceResponse == 175

Success == 0
Fail == 1
ReliableUpdateSuccess == 10600

\* Python's None for the Optional[int] fields (every real value is >= 0).
None == -1

(***************************************************************************)
(* Byte helpers: struct.pack('<L'), struct.unpack, slices.                 *)
(***************************************************************************)
\* data[a:b] of Python (0-based, end exclusive, clipped to the length).
Slice(s, a, b) ==
    LET e == IF b < Len(s) THEN b ELSE Len(s)
    IN  IF a >= e THEN <<>> ELSE SubSeq(s, a + 1, e)

\* data[a:]
SliceFrom(s, a) == Slice(s, a, Len(s))

\* struct.Struct('<L').pack(v)
PackL(v) ==
    << v % 256, (v \div 256) % 256, (v \div 65536) % 256, (v \div 16777216) % 256 >>

\* struct.Struct('<L').unpack(b)[0] for a 4-byte b
UnpackL(b) == b[1] + 256 * b[2] + 65536 * b[3] + 16777216 * b[4]

\* a ^ b on non-negative integers
RECURSIVE Xor(_, _)
Xor(a, b) ==
    IF a = 0 THEN b
    ELSE IF b = 0 THEN a
    ELSE ((a + b) % 2) + 2 * Xor(a \div 2, b \div 2)

(***************************************************************************)
(* BlhostBase.crc16Xmodem.  Python integers are unbounded and the code     *)
(* masks once, at the return; bits 16 and above never flow back into the   *)
(* low 16 bits, so the model drops them after every byte to stay within    *)
(* 32-bit integers.                                                        *)
(***************************************************************************)
\* x ^ w for a single bit w (a power of two)
XorBit(x, w) == IF (x \div w) % 2 = 1 THEN x - w ELSE x + w

\* temp = crc << 1; if crc & 0x8000: temp ^= 0x1021; crc = temp
\* (0x1021 is the three bits 0x1000, 0x20 and 0x01)
crc16Shift(crc) ==
    LET temp == crc * 2
    IN  IF (crc \div 32768) % 2 = 1
        THEN XorBit(XorBit(XorBit(temp, 4096), 32), 1)
        ELSE temp

\* crc ^= c << 8 (crc < 2^16, c < 2^8: the high byte is xored with c);
\* for _ in range(8): <shift>
crc16Byte(crc, c) ==
    crc16Shift(crc16Shift(crc16Shift(crc16Shift(
    crc16Shift(crc16Shift(crc16Shift(crc16Shift(
        256 * Xor(crc \div 256, c) + (crc % 256))))))))) % 65536

\* for c in data: ...  (crc is evaluated at every byte: crc >= 0 always)
RECURSIVE crc16Bytes(_, _, _)
crc16Bytes(data, i, crc) ==
    IF i > Len(data) \/ crc < 0 THEN crc
    ELSE crc16Bytes(data, i + 1, crc16Byte(crc, data[i]))

\* A CRC that always starts from zero.
crc16Xmodem_from_zero(data, crc_init) == crc16Bytes(data, 1, 0) % 65536

crc16Xmodem(data, crc_init) == crc16Bytes(data, 1, crc_init) % 65536

(***************************************************************************)
(* Frame codec: the bytes _framing_packet hands to _send.                  *)
(***************************************************************************)
\* An encoder that computes the CRC over the header alone.
framing_packet_header_crc(packet_type, length, payload) ==
    LET crc16 == crc16Xmodem(<< StartByte, packet_type, length % 256,
                                (length \div 256) % 256 >>, 0)
    IN  << StartByte, packet_type, length % 256, (length \div 256) % 256,
           crc16 % 256, (crc16 \div 256) % 256 >> \o payload

framing_packet(packet_type, length, payload) ==
    LET crc16 == crc16Xmodem(<< StartByte, packet_type, length % 256,
                                (length \div 256) % 256 >> \o payload, 0)
    IN  << StartByte, packet_type, length % 256, (length \div 256) % 256,
           crc16 % 256, (crc16 \div 256) % 256 >> \o payload

command_packet(tag, flags, payload) ==
    framing_packet(Type_Command, 4 + Len(payload),
                   << tag, flags, 0, Len(payload) >> \o payload)

data_packet(payload) == framing_packet(Type_Data, Len(payload), payload)

\* BlhostBase._ack: data = [StartByte, Type_Ack]
AckFrame == << StartByte, Type_Ack >>

\* BlhostBase.ping: data = [StartByte, Type_Ping]
PingFrame == << StartByte, Type_Ping >>

(***************************************************************************)
(* Frames of the target, as the bootloader encodes them (the layout the    *)
(* parser and the dispatcher decode).                                      *)
(***************************************************************************)
NakFrame == << StartByte, Type_Nak >>
AckAbortFrame == << StartByte, Type_AckAbort >>

\* start, type, bugfix, minor, major, name, options(u16), crc(u16 over 8 bytes)
PingResponsePacket(bugfix, minor, major, name) ==
    LET head == << StartByte, Type_PingResponse, bugfix, minor, major, name, 0, 0 >>
        crc  == crc16Xmodem(head, 0)
    IN  head \o << crc % 256, (crc \div 256) % 256 >>

\* A response: a Command frame whose parameters are 32-bit words; the
\* parameter count byte counts the words.
ResponsePacket(tag, words) ==
    LET RECURSIVE Flat(_)
        Flat(ws) == IF ws = <<>> THEN <<>> ELSE PackL(Head(ws)) \o Flat(Tail(ws))
        body == Flat(words)
    IN  framing_packet(Type_Command, 4 + Len(body),
                       << tag, 0, 0, Len(words) >> \o body)

\* The frame f with its CRC field changed, so that the check fails.
CorruptCrc(f) == [f EXCEPT ![5] = (f[5] + 1) % 256]

(***************************************************************************)
(* BlhostDataParser.                                                       *)
(***************************************************************************)
\* A parser that discards at most one leading byte per call.
DiscardOne(d) ==
    IF Len(d) > 0 /\ d[1] # StartByte THEN Tail(d) ELSE d

\* while len(self._data) > 0 and self._data[0] != StartByte: self._data = self._data[1:]
RECURSIVE DiscardToStart(_)
DiscardToStart(d) ==
    IF Len(d) > 0 /\ d[1] # StartByte THEN DiscardToStart(Tail(d)) ELSE d

\* The parser's fields after a call, and what the call returned (<<>> is None).
ParseResult(d, l, c, m) == [data |-> d, data_len |-> l, data_crc |-> c, message |-> m]

\* As parse_finish, by a parser that returns the message whether or not the
\* CRC matched.
parse_finish_unchecked(d, l, c) ==
    IF l # None /\ Len(d) = l /\ c # None
    THEN ParseResult(SliceFrom(d, l), None, None, Slice(d, 0, l))
    ELSE ParseResult(d, l, c, <<>>)

\* "Check if we are done reading the packet", on the fields d, l, c.
parse_finish(d, l, c) ==
    IF l # None /\ Len(d) = l /\ c # None
    THEN LET crc == IF d[2] = Type_PingResponse
                    THEN crc16Xmodem(Slice(d, 0, 8), 0)
                    ELSE crc16Xmodem(Slice(d, 6, l), crc16Xmodem(Slice(d, 0, 4), 0))
             match == crc = c
         IN  ParseResult(SliceFrom(d, l), None, None,
                         IF match THEN Slice(d, 0, l) ELSE <<>>)
    ELSE ParseResult(d, l, c, <<>>)

\* A parser that reads the length field only when the buffer holds exactly
\* the four header bytes.
parse_data_len_exact(d, data_len) ==
    IF Len(d) = 4 /\ data_len = None THEN 6 + (d[3] + 256 * d[4]) ELSE data_len

\* if len(self._data) >= 4 and self._data_len is None:
\*     self._data_len = 6 + (self._data[2] | self._data[3] << 8)
parse_data_len(d, data_len) ==
    IF Len(d) >= 4 /\ data_len = None THEN 6 + (d[3] + 256 * d[4]) ELSE data_len

\* BlhostDataParser.parse(data) on a parser whose fields are self.
parse(self, data) ==
    LET d == DiscardToStart(self.data \o data)
    IN  IF Len(d) < 2 THEN ParseResult(d, self.data_len, self.data_crc, <<>>)
        ELSE IF d[2] \in {Type_Ack, Type_Nak, Type_AckAbort}
        THEN ParseResult(SliceFrom(d, 2), self.data_len, self.data_crc, Slice(d, 0, 2))
        ELSE IF d[2] = Type_Ping
        THEN ParseResult(SliceFrom(d, 2), self.data_len, self.data_crc, <<>>)
        ELSE IF d[2] = Type_PingResponse
        THEN parse_finish(d, 10,
                          IF Len(d) >= 10 /\ self.data_crc = None
                          THEN d[9] + 256 * d[10] ELSE self.data_crc)
        ELSE IF d[2] \in {Type_Command, Type_Data}
        THEN parse_finish(d, parse_data_len(d, self.data_len),
                          IF Len(d) >= 6 /\ self.data_crc = None
                          THEN d[5] + 256 * d[6] ELSE self.data_crc)
        ELSE ParseResult(SliceFrom(d, 2), self.data_len, self.data_crc, <<>>)

\* BlhostDataParser.__init__
ParserInit == [data |-> <<>>, data_len |-> None, data_crc |-> None]

(***************************************************************************)
(* BlhostDataParser under an inbound byte stream: its state.               *)
(***************************************************************************)
VARIABLES
    p_frames,   \* the frames the target sent, in order
    p_stream,   \* the bytes of those frames, one after the other
    p_fed,      \* how many bytes of their concatenation parse() has received
    p_parser,   \* the parser's fields: data, data_len, data_crc
    p_out,      \* the packets parse() returned, in order
    p_single,   \* at most one parse() call so far
    p_bytewise  \* every parse() call so far delivered exactly one byte

(***************************************************************************)
(* The codec on its own: a caller that encodes one long frame and feeds    *)
(* it to a fresh parser, and a caller that computes CRCs.                  *)
(***************************************************************************)
VARIABLES
    c_type,     \* the packet type of the frame to encode
    c_tag,      \* a Command frame: its command tag
    c_a,        \* the payload handed to the encoder; the CRC's byte sequence A
    c_b,        \* the CRC's byte sequence B
    c_crc,      \* the CRCs computed: first (of A), chained (of B, starting
                \* from first), whole (of A followed by B)
    c_pc        \* the caller's position

cvars == << c_type, c_tag, c_a, c_b, c_crc, c_pc >>

\* What no step of the engine touches: the parser and the codec's caller.
pvars == << p_frames, p_stream, p_fed, p_parser, p_out, p_single, p_bytewise, cvars >>

\* No codec call is made.
CIdle ==
    /\ c_type = 0 /\ c_tag = 0 /\ c_a = << >> /\ c_b = << >>
    /\ c_crc = [first |-> None, chained |-> None, whole |-> None]
    /\ c_pc = "idle"

(***************************************************************************)
(* BlhostBase: the engine's state (__init__), shared by the driver (the    *)
(* caller of ping, reset, upload, read) and the reader (the thread that    *)
(* calls _data_callback with each packet the parser returned).             *)
(***************************************************************************)
VARIABLES
    event,              \* the threading.Event flags, by name
    last_send_packet,   \* _last_send_packet (<<>> is None)
    send_lock,          \* holder of _send_lock: "free", "driver" or "reader"
    memory_data,        \* _memory_data
    wire_last,          \* the frame _send_implementation received last (<<>>: none yet)
    \* the driver
    op,                 \* the operation the driver runs: "upload" or "read"
    file_data,          \* upload: contents of the binary file
    ping_repeat,        \* upload, read: the ping_repeat argument
    byte_count,         \* read: the byte_count argument
    attempts,           \* upload: the keyword argument attempts of the call
                        \* (None: the call passes no such argument)
    reset_after,        \* upload: the keyword argument that switches the reset
                        \* after the upload on (1, True) or off (0, False)
                        \* (None: the call passes no such argument)
    pc,                 \* the driver's position
    loc,                \* the driver's local variables: binary_data (upload: the
                        \* padded data), i (the ping loop's counter), chunk_i
                        \* (index of the next chunk), data_sent, upload_result,
                        \* reset_result (what self.reset(timeout) returned),
                        \* memory_len (read: len(self._memory_data) as compared
                        \* with byte_count), ping_result (what a call of ping
                        \* by the caller returned), error (the exception a
                        \* call of upload raised, "": none)
    send_data,          \* _send, called by the driver: its argument
    send_ret,           \* _send, called by the driver: where it returns to
    yielded,            \* the items the generator has yielded, in order
    d_sent,             \* the frames the driver handed to the transport, in order
    \* the reader
    rpc,                \* the reader's position in _data_callback
    r_data,             \* _data_callback: its argument, the packet
    r_arg,              \* _send, called by the reader: its argument
    r_trace,            \* what this call has done so far: frames sent, events set
    r_wire,             \* a NAK: wire_last when this call began
    r_last,             \* a NAK: _last_send_packet when this call began
    n_in,               \* packets dispatched so far
    m_dispatched,       \* payloads of the Data packets dispatched since read cleared
                        \* _memory_data, in order
    m_stored,           \* payloads appended to _memory_data since read cleared it
    ping_seen,          \* the PingResponse packets dispatched since ping last
                        \* cleared ping_response_event
    m_signal            \* for flash_erase_region_response_event and
                        \* write_memory_response_event: "none" when the event was
                        \* not set since the driver cleared it for its command,
                        \* "early" when it was set only while that command was
                        \* not yet handed to the transport, else "sent"; for
                        \* "terminal_wait": "none" when write_memory_response_event
                        \* was not set since _upload cleared it for its last
                        \* wait, else "sent"; for "final_response": "none" when
                        \* it was not set since that clear, "early" when it
                        \* was set only while Data frames were still to be
                        \* sent, else "sent"; for "cleanup_wait": "owed" when
                        \* upload sent the FlashEraseRegion of its clean-up
                        \* with the first one unanswered, "due" when it was
                        \* answered, "late" when one response was dispatched
                        \* since "owed", "sent" when a response was dispatched
                        \* since "due" or "late"; "off" in the specifications
                        \* that do not watch the signals

shared == << event, last_send_packet, send_lock, memory_data, wire_last >>
args   == << op, file_data, ping_repeat, byte_count, attempts, reset_after >>
dsend  == << send_data, send_ret >>
dout   == << yielded, d_sent >>
rvars  == << rpc, r_data, r_arg, r_trace, r_wire, r_last, n_in >>
msig   == << m_signal >>
mlog   == << m_dispatched, m_stored, ping_seen, msig >>
evars  == << shared, args, pc, loc, dsend, dout, rvars, mlog >>

vars == << evars, pvars >>

EventNames ==
    { "ack_response_event", "reset_response_event",
      "flash_erase_region_response_event", "read_memory_response_tag_event",
      "write_memory_response_event", "read_memory_response_event",
      "data_event", "ping_response_event" }

\* The arguments start_address and erase_byte_count of upload.
UploadArgs == [start_address |-> 4096, erase_byte_count |-> 8192]

\* The files upload is given: byte k of a file is k mod 256; an empty file, a
\* file of one byte (padded to 16) and a file of MaxBlocks blocks of 16 bytes.
FileOfLength(n) == [k \in 1..n |-> k % 256]
FileLengths == { 0, 1, 16 * MaxBlocks }

\* A padding to a multiple of 4 bytes, the alignment the reference manual names.
Pad4(b) ==
    IF Len(b) % 4 # 0
    THEN b \o [k \in 1..(4 - (Len(b) % 4)) |-> 255]
    ELSE b

\* if len(binary_data) % 16 != 0: binary_data += bytes([0xff] * (16 - len % 16))
Pad16(b) ==
    IF Len(b) % 16 # 0
    THEN b \o [k \in 1..(16 - (Len(b) % 16)) |-> 255]
    ELSE b

\* BlhostBase.chunks(lst, n): chunk k (0-based) is lst[k*n : k*n + n]
NumChunks(lst, n) == (Len(lst) + n - 1) \div n
Chunk(lst, n, k) == Slice(lst, k * n, k * n + n)

\* _flash_erase_region, _write_memory, _read_memory, reset: the command frames
flash_erase_region(start_address, count) ==
    command_packet(FlashEraseRegion, 0, PackL(start_address) \o PackL(count))
write_memory(start_address, data) ==
    command_packet(WriteMemory, 0, PackL(start_address) \o PackL(Len(data)))
read_memory(start_address, count) ==
    command_packet(ReadMemory, 0, PackL(start_address) \o PackL(count))
ResetFrame == command_packet(Reset, 0, << >>)
EraseFrame == flash_erase_region(UploadArgs.start_address, UploadArgs.erase_byte_count)

\* The frames of _write_memory(start_address, binary_data) and of
\* _data_packet(*chunk) for each chunk of chunks(binary_data, 32), for the
\* files upload is given.
BinaryDatas == { Pad16(FileOfLength(n)) : n \in FileLengths }
WriteMemoryFrames == [b \in BinaryDatas |-> write_memory(UploadArgs.start_address, b)]
DataFrames ==
    [b \in BinaryDatas |->
        [k \in 0..(NumChunks(b, 32) - 1) |-> data_packet(Chunk(b, 32, k))]]

\* The items a generator yields.
Progress(num, den) == [kind |-> "progress", num |-> num, den |-> den]
Result(b) == [kind |-> "result", value |-> b]

\* The events of the commands upload waits for, and the command of each.
SignalEvents == { "flash_erase_region_response_event", "write_memory_response_event" }
CommandOf == [e \in SignalEvents |-> IF e = "flash_erase_region_response_event"
                                     THEN FlashEraseRegion ELSE WriteMemory]

EState(signal) ==
    /\ event = [e \in EventNames |-> FALSE]
    /\ last_send_packet = << >>
    /\ send_lock = "free"
    /\ memory_data = << >>
    /\ wire_last = << >>
    /\ loc = [binary_data |-> << >>, i |-> 0, chunk_i |-> 0, data_sent |-> 0,
              upload_result |-> FALSE, reset_result |-> FALSE, memory_len |-> None,
              ping_result |-> FALSE, error |-> ""]
    /\ send_data = << >> /\ send_ret = ""
    /\ yielded = << >> /\ d_sent = << >>
    /\ rpc = "idle" /\ r_data = << >> /\ r_arg = << >>
    /\ r_trace = << >> /\ r_wire = << >> /\ r_last = << >>
    /\ n_in = 0
    /\ m_dispatched = << >> /\ m_stored = << >>
    /\ ping_seen = {}
    /\ m_signal = [e \in SignalEvents \cup { "terminal_wait", "final_response",
                                             "cleanup_wait" } |-> signal]

ERest == EState("off")

\* The byte_count arguments read is given.
ByteCounts == { 0, MaxByteCount }

\* BlhostBase.__init__, and the call the driver makes.
EInit ==
    /\ op \in {"upload", "read"}
    /\ file_data \in IF op = "upload" THEN { FileOfLength(n) : n \in FileLengths }
                                      ELSE { << >> }
    /\ byte_count \in IF op = "read" THEN ByteCounts ELSE { 0 }
    /\ ping_repeat \in 0..MaxPingRepeat
    /\ attempts = None /\ reset_after = None
    /\ pc = op
    /\ ERest

\* An engine that runs no operation (the parser is checked on its own).
EIdle ==
    /\ op = "none" /\ file_data = << >> /\ ping_repeat = 0 /\ byte_count = 0
    /\ attempts = None /\ reset_after = None
    /\ pc = "done"
    /\ ERest

\* The parser of an engine run is not fed: its stream is empty.
PIdle ==
    /\ p_frames = << >> /\ p_stream = << >> /\ p_fed = 0
    /\ p_parser = ParserInit /\ p_out = << >>
    /\ p_single = TRUE /\ p_bytewise = TRUE
    /\ CIdle

(***************************************************************************)
(* threading.Event, and _send as the driver calls it.                      *)
(***************************************************************************)
\* event.clear(), event.set()
Cleared(e) == [event EXCEPT ![e] = FALSE]
Signalled(e) == [event EXCEPT ![e] = TRUE]

\* The driver calls self._send(data); when it returns the driver is at ret.
CallSend(data, ret) ==
    /\ pc' = "send"
    /\ send_data' = data
    /\ send_ret' = ret

\* As send_store, by a _send that does not wait for the lock.
send_store_unlocked ==
    /\ pc = "send"
    /\ send_lock' = "driver"
    /\ last_send_packet' = send_data
    /\ pc' = "send_implementation"
    /\ UNCHANGED << event, memory_data, wire_last, args, loc, dsend, dout, rvars, mlog,
                    pvars >>

\* _send: with self._send_lock: self._last_send_packet = data
send_store ==
    /\ pc = "send"
    /\ send_lock = "free"
    /\ send_lock' = "driver"
    /\ last_send_packet' = send_data
    /\ pc' = "send_implementation"
    /\ UNCHANGED << event, memory_data, wire_last, args, loc, dsend, dout, rvars, mlog,
                    pvars >>

\* _send: self._send_implementation(data); leaving the with block frees the lock
send_implementation ==
    /\ pc = "send_implementation"
    /\ wire_last' = send_data
    /\ d_sent' = Append(d_sent, send_data)
    /\ send_lock' = "free"
    /\ pc' = send_ret
    /\ UNCHANGED << event, last_send_packet, memory_data, args, loc, dsend, yielded,
                    rvars, mlog, pvars >>

\* A driver step that touches only its position, its locals and the events.
DriverOnly == UNCHANGED << last_send_packet, send_lock, memory_data, wire_last, args,
                           d_sent, rvars, mlog, pvars >>

\* The driver cleared event e and is inside _send with the command of e: the
\* frame is not yet handed to the transport.
Pending(e) ==
    /\ pc \in { "send", "send_implementation" }
    /\ send_data[2] = Type_Command
    /\ send_data[7] = CommandOf[e]

\* The driver cleared event e for its command; the reader set event e.
ClearedSignal(e) ==
    IF m_signal[e] = "off" THEN m_signal
    ELSE [m_signal EXCEPT ![e] = "none",
                          !["final_response"] = IF e = "terminal_wait" THEN "none" ELSE @]

\* upload clears flash_erase_region_response_event for the FlashEraseRegion
\* of its clean-up: the response to the first FlashEraseRegion is still owed
\* when none was dispatched since the clear that preceded that command.
CleanupSignal ==
    IF m_signal["cleanup_wait"] = "off" THEN m_signal
    ELSE [m_signal EXCEPT
            !["flash_erase_region_response_event"] = "none",
            !["cleanup_wait"] =
                IF m_signal["flash_erase_region_response_event"] = "none"
                THEN "owed" ELSE "due"]

\* _upload has handed every Data frame of the file to the transport.
AllDataSent ==
    Len(SelectSeq(d_sent, LAMBDA f : f[2] = Type_Data)) = NumChunks(loc.binary_data, 32)

SetSignal(e) ==
    IF e \notin SignalEvents THEN m_signal
    ELSE IF m_signal[e] = "off" THEN m_signal
    ELSE [m_signal EXCEPT
            ![e] = IF Pending(e) THEN "early" ELSE "sent",
            !["terminal_wait"] = IF e = "write_memory_response_event" THEN "sent" ELSE @,
            !["final_response"] =
                IF e # "write_memory_response_event" \/ @ = "sent" THEN @
                ELSE IF AllDataSent THEN "sent" ELSE "early",
            !["cleanup_wait"] =
                IF e # "flash_erase_region_response_event" THEN @
                ELSE IF @ = "owed" THEN "late"
                ELSE IF @ \in { "late", "due" } THEN "sent"
                ELSE @]

\* A driver step that touches its position, its locals, the events and the
\* record of the signals.
DriverLog == UNCHANGED << last_send_packet, send_lock, memory_data, wire_last, args,
                          d_sent, rvars, m_dispatched, m_stored, ping_seen, pvars >>

\* ping: self._ping_response_event.clear(); self._send([StartByte, Type_Ping])
\* -- _send is called; when it returns the driver is at ret.
ping_clear_send(ret) ==
    /\ event' = Cleared("ping_response_event")
    /\ ping_seen' = {}
    /\ CallSend(PingFrame, ret)
    /\ UNCHANGED << last_send_packet, send_lock, memory_data, wire_last, args, d_sent,
                    rvars, m_dispatched, m_stored, msig, pvars >>

(***************************************************************************)
(* BlhostBase.upload and BlhostBase._upload.                               *)
(***************************************************************************)
\* upload: read the file, pad it to 16 bytes, enter _upload
upload_open ==
    /\ pc = "upload"
    /\ loc' = [loc EXCEPT !.binary_data = Pad16(file_data), !.i = 0]
    /\ pc' = "upload_ping"
    /\ UNCHANGED << event, dsend, yielded >>
    /\ DriverOnly

\* _upload: for i in range(ping_repeat): self.ping(timeout) -- ping clears
\* the event and sends the Ping frame
upload_ping ==
    /\ pc = "upload_ping"
    /\ loc.i < ping_repeat
    /\ ping_clear_send("upload_ping_wait")
    /\ UNCHANGED << loc, yielded >>

\* As upload_ping_failed, with "yield False" where the code has "return False".
upload_ping_failed_yields ==
    /\ pc = "upload_ping"
    /\ loc.i >= ping_repeat
    /\ loc' = [loc EXCEPT !.upload_result = FALSE]
    /\ yielded' = Append(yielded, Result(FALSE))
    /\ pc' = "upload_failed"
    /\ UNCHANGED << event, dsend >>
    /\ DriverOnly

\* As upload_ping_failed, going on with the erase where the code returns.
upload_ping_failed_goes_on ==
    /\ pc = "upload_ping"
    /\ loc.i >= ping_repeat
    /\ pc' = "upload_erase"
    /\ UNCHANGED << event, loc, dsend, yielded >>
    /\ DriverOnly

\* _upload: the for loop ran out (else: return False)
upload_ping_failed ==
    /\ pc = "upload_ping"
    /\ loc.i >= ping_repeat
    /\ loc' = [loc EXCEPT !.upload_result = FALSE]
    /\ pc' = "upload_failed"
    /\ UNCHANGED << event, dsend, yielded >>
    /\ DriverOnly

\* ping: return self._ping_response_event.wait(timeout) -- True: break
upload_ping_response ==
    /\ pc = "upload_ping_wait"
    /\ event["ping_response_event"]
    /\ pc' = "upload_erase"
    /\ UNCHANGED << event, loc, dsend, yielded >>
    /\ DriverOnly

\* ping: the wait timed out -- False: next i
upload_ping_timeout ==
    /\ pc = "upload_ping_wait"
    /\ ~event["ping_response_event"]
    /\ loc' = [loc EXCEPT !.i = @ + 1]
    /\ pc' = "upload_ping"
    /\ UNCHANGED << event, dsend, yielded >>
    /\ DriverOnly

\* _upload: clear the event, send FlashEraseRegion
upload_erase ==
    /\ pc = "upload_erase"
    /\ event' = Cleared("flash_erase_region_response_event")
    /\ m_signal' = ClearedSignal("flash_erase_region_response_event")
    /\ CallSend(EraseFrame, "upload_erase_wait")
    /\ UNCHANGED << loc, yielded >>
    /\ DriverLog

\* As upload_erase_timeout, going on with the write where the code returns.
upload_erase_timeout_goes_on ==
    /\ pc = "upload_erase_wait"
    /\ ~event["flash_erase_region_response_event"]
    /\ pc' = "upload_write"
    /\ UNCHANGED << event, loc, dsend, yielded >>
    /\ DriverOnly

upload_erase_response ==
    /\ pc = "upload_erase_wait"
    /\ event["flash_erase_region_response_event"]
    /\ pc' = "upload_write"
    /\ UNCHANGED << event, loc, dsend, yielded >>
    /\ DriverOnly

\* "Timed out waiting for initial flash erase region response": return False
upload_erase_timeout ==
    /\ pc = "upload_erase_wait"
    /\ ~event["flash_erase_region_response_event"]
    /\ loc' = [loc EXCEPT !.upload_result = FALSE]
    /\ pc' = "upload_failed"
    /\ UNCHANGED << event, dsend, yielded >>
    /\ DriverOnly

\* _upload: clear the event, send WriteMemory
upload_write ==
    /\ pc = "upload_write"
    /\ event' = Cleared("write_memory_response_event")
    /\ m_signal' = ClearedSignal("write_memory_response_event")
    /\ CallSend(WriteMemoryFrames[loc.binary_data], "upload_write_wait")
    /\ UNCHANGED << loc, yielded >>
    /\ DriverLog

upload_write_response ==
    /\ pc = "upload_write_wait"
    /\ event["write_memory_response_event"]
    /\ pc' = "upload_clear"
    /\ UNCHANGED << event, loc, dsend, yielded >>
    /\ DriverOnly

\* "Timed out waiting for write memory response": return False
upload_write_timeout ==
    /\ pc = "upload_write_wait"
    /\ ~event["write_memory_response_event"]
    /\ loc' = [loc EXCEPT !.upload_result = FALSE]
    /\ pc' = "upload_failed"
    /\ UNCHANGED << event, dsend, yielded >>
    /\ DriverOnly

\* As upload_clear, without the clear() of write_memory_response_event.
upload_clear_keeps ==
    /\ pc = "upload_clear"
    /\ m_signal' = ClearedSignal("terminal_wait")
    /\ yielded' = Append(yielded, Progress(0, 1))
    /\ loc' = [loc EXCEPT !.data_sent = 0, !.chunk_i = 0]
    /\ pc' = "upload_chunk"
    /\ UNCHANGED << event, dsend >>
    /\ DriverLog

\* _upload: self._write_memory_response_event.clear(); yield 0; data_sent = 0
upload_clear ==
    /\ pc = "upload_clear"
    /\ event' = Cleared("write_memory_response_event")
    /\ m_signal' = ClearedSignal("terminal_wait")
    /\ yielded' = Append(yielded, Progress(0, 1))
    /\ loc' = [loc EXCEPT !.data_sent = 0, !.chunk_i = 0]
    /\ pc' = "upload_chunk"
    /\ UNCHANGED dsend
    /\ DriverLog

\* _upload: for d in self.chunks(binary_data, 32): clear ack, send the Data frame
upload_chunk ==
    /\ pc = "upload_chunk"
    /\ loc.chunk_i < NumChunks(loc.binary_data, 32)
    /\ event' = Cleared("ack_response_event")
    /\ CallSend(DataFrames[loc.binary_data][loc.chunk_i], "upload_ack_wait")
    /\ UNCHANGED << loc, yielded >>
    /\ DriverOnly

\* As upload_ack_response, with "data_sent += 32" where the code has "+= len(d)".
upload_ack_response_chunk_size ==
    /\ pc = "upload_ack_wait"
    /\ event["ack_response_event"]
    /\ LET sent == loc.data_sent + 32
       IN  /\ loc' = [loc EXCEPT !.data_sent = sent, !.chunk_i = @ + 1]
           /\ yielded' = Append(yielded, Progress(sent * 100, Len(loc.binary_data)))
    /\ pc' = "upload_chunk"
    /\ UNCHANGED << event, dsend >>
    /\ DriverOnly

\* _upload: the ACK came: data_sent += len(d); yield data_sent / len(binary_data) * 100.
upload_ack_response ==
    /\ pc = "upload_ack_wait"
    /\ event["ack_response_event"]
    /\ LET sent == loc.data_sent + Len(Chunk(loc.binary_data, 32, loc.chunk_i))
       IN  /\ loc' = [loc EXCEPT !.data_sent = sent, !.chunk_i = @ + 1]
           /\ yielded' = Append(yielded, Progress(sent * 100, Len(loc.binary_data)))
    /\ pc' = "upload_chunk"
    /\ UNCHANGED << event, dsend >>
    /\ DriverOnly

\* As upload_ack_timeout, going on with the next chunk where the code returns.
upload_ack_timeout_goes_on ==
    /\ pc = "upload_ack_wait"
    /\ ~event["ack_response_event"]
    /\ loc' = [loc EXCEPT !.chunk_i = @ + 1]
    /\ pc' = "upload_chunk"
    /\ UNCHANGED << event, dsend, yielded >>
    /\ DriverOnly

\* "Timed out waiting for ACK response": return False
upload_ack_timeout ==
    /\ pc = "upload_ack_wait"
    /\ ~event["ack_response_event"]
    /\ loc' = [loc EXCEPT !.upload_result = FALSE]
    /\ pc' = "upload_failed"
    /\ UNCHANGED << event, dsend, yielded >>
    /\ DriverOnly

\* _upload: the loop is over
upload_chunks_done ==
    /\ pc = "upload_chunk"
    /\ loc.chunk_i >= NumChunks(loc.binary_data, 32)
    /\ pc' = "upload_final_wait"
    /\ UNCHANGED << event, loc, dsend, yielded >>
    /\ DriverOnly

\* _upload: if self._write_memory_response_event.wait(timeout): return True
upload_final_response ==
    /\ pc = "upload_final_wait"
    /\ event["write_memory_response_event"]
    /\ loc' = [loc EXCEPT !.upload_result = TRUE]
    /\ pc' = "upload_reset"
    /\ UNCHANGED << event, dsend, yielded >>
    /\ DriverOnly

\* As upload_final_timeout, with the reset next and no clean-up.
upload_final_timeout_no_cleanup ==
    /\ pc = "upload_final_wait"
    /\ ~event["write_memory_response_event"]
    /\ loc' = [loc EXCEPT !.upload_result = FALSE]
    /\ pc' = "upload_reset"
    /\ UNCHANGED << event, dsend, yielded >>
    /\ DriverOnly

\* _upload: return False
upload_final_timeout ==
    /\ pc = "upload_final_wait"
    /\ ~event["write_memory_response_event"]
    /\ loc' = [loc EXCEPT !.upload_result = FALSE]
    /\ pc' = "upload_failed"
    /\ UNCHANGED << event, dsend, yielded >>
    /\ DriverOnly

\* As upload_cleanup, without the clear() of flash_erase_region_response_event.
upload_cleanup_keeps ==
    /\ pc = "upload_failed"
    /\ m_signal' = CleanupSignal
    /\ CallSend(EraseFrame, "upload_cleanup_wait")
    /\ UNCHANGED << event, loc, yielded >>
    /\ DriverLog

\* upload: if not upload_result: clear the event, send FlashEraseRegion
upload_cleanup ==
    /\ pc = "upload_failed"
    /\ event' = Cleared("flash_erase_region_response_event")
    /\ m_signal' = CleanupSignal
    /\ CallSend(EraseFrame, "upload_cleanup_wait")
    /\ UNCHANGED << loc, yielded >>
    /\ DriverLog

upload_cleanup_response ==
    /\ pc = "upload_cleanup_wait"
    /\ event["flash_erase_region_response_event"]
    /\ pc' = "upload_reset"
    /\ UNCHANGED << event, loc, dsend, yielded >>
    /\ DriverOnly

\* "Timed out waiting for flash erase region response after the upload failed"
upload_cleanup_timeout ==
    /\ pc = "upload_cleanup_wait"
    /\ ~event["flash_erase_region_response_event"]
    /\ pc' = "upload_reset"
    /\ UNCHANGED << event, loc, dsend, yielded >>
    /\ DriverOnly

\* upload: finally: self.reset(timeout) -- reset clears the event and sends Reset
upload_reset ==
    /\ pc = "upload_reset"
    /\ event' = Cleared("reset_response_event")
    /\ CallSend(ResetFrame, "upload_reset_wait")
    /\ UNCHANGED << loc, yielded >>
    /\ DriverOnly

upload_reset_response ==
    /\ pc = "upload_reset_wait"
    /\ event["reset_response_event"]
    /\ loc' = [loc EXCEPT !.reset_result = TRUE]
    /\ pc' = "upload_yield"
    /\ UNCHANGED << event, dsend, yielded >>
    /\ DriverOnly

\* As upload_reset_timeout, without "upload_result = False".
upload_reset_timeout_keeps ==
    /\ pc = "upload_reset_wait"
    /\ ~event["reset_response_event"]
    /\ loc' = [loc EXCEPT !.reset_result = FALSE]
    /\ pc' = "upload_yield"
    /\ UNCHANGED << event, dsend, yielded >>
    /\ DriverOnly

\* "Timed out waiting for reset response": upload_result = False
upload_reset_timeout ==
    /\ pc = "upload_reset_wait"
    /\ ~event["reset_response_event"]
    /\ loc' = [loc EXCEPT !.reset_result = FALSE, !.upload_result = FALSE]
    /\ pc' = "upload_yield"
    /\ UNCHANGED << event, dsend, yielded >>
    /\ DriverOnly

\* upload: yield upload_result
upload_yield ==
    /\ pc = "upload_yield"
    /\ yielded' = Append(yielded, Result(loc.upload_result))
    /\ pc' = "done"
    /\ UNCHANGED << event, loc, dsend >>
    /\ DriverOnly

upload ==
    \/ upload_open
    \/ upload_ping \/ upload_ping_failed \/ upload_ping_response \/ upload_ping_timeout
    \/ upload_erase \/ upload_erase_response \/ upload_erase_timeout
    \/ upload_write \/ upload_write_response \/ upload_write_timeout
    \/ upload_clear
    \/ upload_chunk \/ upload_ack_response \/ upload_ack_timeout \/ upload_chunks_done
    \/ upload_final_response \/ upload_final_timeout
    \/ upload_cleanup \/ upload_cleanup_response \/ upload_cleanup_timeout
    \/ upload_reset \/ upload_reset_response \/ upload_reset_timeout
    \/ upload_yield

(***************************************************************************)
(* BlhostBase.read.                                                        *)
(***************************************************************************)
\* The argument start_address of read, and the ReadMemory frame of each byte_count.
ReadArgs == [start_address |-> 4096]
ReadMemoryFrames == [n \in 0..MaxByteCount |-> read_memory(ReadArgs.start_address, n)]

\* A byte buffer a generator yields.
Buffer(b) == [kind |-> "buffer", value |-> b]

\* read: for i in range(ping_repeat): self.ping(timeout)
read_ping ==
    /\ pc = "read"
    /\ loc.i < ping_repeat
    /\ ping_clear_send("read_ping_wait")
    /\ UNCHANGED << loc, yielded >>

\* "Target did not respond to ping": return
read_ping_failed ==
    /\ pc = "read"
    /\ loc.i >= ping_repeat
    /\ pc' = "done"
    /\ UNCHANGED << event, loc, dsend, yielded >>
    /\ DriverOnly

\* ping: the wait timed out -- False: next i
read_ping_timeout ==
    /\ pc = "read_ping_wait"
    /\ ~event["ping_response_event"]
    /\ loc' = [loc EXCEPT !.i = @ + 1]
    /\ pc' = "read"
    /\ UNCHANGED << event, dsend, yielded >>
    /\ DriverOnly

\* ping returned True: break; self._memory_data.clear()
read_clear ==
    /\ pc = "read_ping_wait"
    /\ event["ping_response_event"]
    /\ memory_data' = << >>
    /\ m_dispatched' = << >> /\ m_stored' = << >>
    /\ UNCHANGED << ping_seen, msig >>
    /\ pc' = "read_request"
    /\ UNCHANGED << event, last_send_packet, send_lock, wire_last, args, loc, dsend, dout,
                    rvars, pvars >>

\* read: clear data_event, read_memory_response_tag_event and
\* read_memory_response_event; send ReadMemory
read_request ==
    /\ pc = "read_request"
    /\ event' = [event EXCEPT !["data_event"] = FALSE,
                              !["read_memory_response_tag_event"] = FALSE,
                              !["read_memory_response_event"] = FALSE]
    /\ CallSend(ReadMemoryFrames[byte_count], "read_response_wait")
    /\ UNCHANGED << loc, yielded >>
    /\ DriverOnly

\* "Timed out waiting for read memory response": return
read_response_timeout ==
    /\ pc = "read_response_wait"
    /\ ~event["read_memory_response_event"]
    /\ pc' = "done"
    /\ UNCHANGED << event, loc, dsend, yielded >>
    /\ DriverOnly

read_response ==
    /\ pc = "read_response_wait"
    /\ event["read_memory_response_event"]
    /\ pc' = "read_progress"
    /\ UNCHANGED << event, loc, dsend, yielded >>
    /\ DriverOnly

\* while True: yield len(self._memory_data) / byte_count * 100.
\* (byte_count 0: ZeroDivisionError leaves the generator)
read_progress ==
    /\ pc = "read_progress"
    /\ IF byte_count = 0
       THEN pc' = "raised" /\ UNCHANGED yielded
       ELSE /\ yielded' = Append(yielded, Progress(Len(memory_data) * 100, byte_count))
            /\ pc' = "read_data_wait"
    /\ UNCHANGED << event, loc, dsend >>
    /\ DriverOnly

\* self._data_event.wait(timeout) returned True
read_data ==
    /\ pc = "read_data_wait"
    /\ event["data_event"]
    /\ pc' = "read_data_clear"
    /\ UNCHANGED << event, loc, dsend, yielded >>
    /\ DriverOnly

\* self._data_event.clear(), the last statement of the loop
read_data_clear ==
    /\ pc = "read_data_clear"
    /\ event' = Cleared("data_event")
    /\ pc' = "read_progress"
    /\ UNCHANGED << loc, dsend, yielded >>
    /\ DriverOnly

\* the wait timed out and read_memory_response_tag_event is set: yield 100.; break
read_finished ==
    /\ pc = "read_data_wait"
    /\ ~event["data_event"]
    /\ event["read_memory_response_tag_event"]
    /\ yielded' = Append(yielded, Progress(100, 1))
    /\ pc' = "read_check"
    /\ UNCHANGED << event, loc, dsend >>
    /\ DriverOnly

\* "Timed out waiting for read memory data event": return
read_data_timeout ==
    /\ pc = "read_data_wait"
    /\ ~event["data_event"]
    /\ ~event["read_memory_response_tag_event"]
    /\ pc' = "done"
    /\ UNCHANGED << event, loc, dsend, yielded >>
    /\ DriverOnly

\* As read_check, with "<" where the code has "!=".
read_check_at_least ==
    /\ pc = "read_check"
    /\ loc' = [loc EXCEPT !.memory_len = Len(memory_data)]
    /\ pc' = IF Len(memory_data) < byte_count THEN "done" ELSE "read_yield"
    /\ UNCHANGED << event, dsend, yielded >>
    /\ DriverOnly

\* if len(self._memory_data) != byte_count: return
read_check ==
    /\ pc = "read_check"
    /\ loc' = [loc EXCEPT !.memory_len = Len(memory_data)]
    /\ pc' = IF Len(memory_data) # byte_count THEN "done" ELSE "read_yield"
    /\ UNCHANGED << event, dsend, yielded >>
    /\ DriverOnly

\* yield self._memory_data
read_yield ==
    /\ pc = "read_yield"
    /\ yielded' = Append(yielded, Buffer(memory_data))
    /\ pc' = "done"
    /\ UNCHANGED << event, loc, dsend >>
    /\ DriverOnly

read ==
    \/ read_ping \/ read_ping_failed \/ read_ping_timeout
    \/ read_clear \/ read_request
    \/ read_response_timeout \/ read_response
    \/ read_progress \/ read_data \/ read_data_clear \/ read_finished \/ read_data_timeout
    \/ read_check \/ read_yield

(***************************************************************************)
(* The reader: BlhostBase._data_callback, called with each packet the      *)
(* parser returned (BlhostSerial._serial_read_thread,                      *)
(* BlhostCanListener.on_message_received).  The target may send any of     *)
(* the packets below at any time.                                          *)
(***************************************************************************)
PingResponseP120 == PingResponsePacket(0, 2, 1, 80)
GenericResponsePacket(status, command_tag) ==
    ResponsePacket(GenericResponse, << status, command_tag >>)

\* What the target may send during an upload.
UploadInbound ==
    { AckFrame, NakFrame, AckAbortFrame, PingResponseP120,
      GenericResponsePacket(Success, FlashEraseRegion),
      GenericResponsePacket(Success, WriteMemory),
      GenericResponsePacket(Fail, WriteMemory),
      GenericResponsePacket(Success, Reset) }

\* What the target may send during a read.
ReadData == { data_packet(<< 1, 2 >>), data_packet(<< 3 >>) }
ReadMemoryResponsePacket(status, data_byte_count) ==
    ResponsePacket(ReadMemoryResponse, << status, data_byte_count >>)
ReadResponses == [n \in 0..MaxByteCount |-> ReadMemoryResponsePacket(Success, n)]
ReadInboundAny ==
    { PingResponseP120,
      ReadMemoryResponsePacket(Fail, 0),
      GenericResponsePacket(Success, ReadMemory) } \cup ReadData
ReadInbound == ReadInboundAny \cup { ReadResponses[byte_count] }

\* What the target may send to an engine whose driver runs no operation:
\* every kind of packet _data_callback tells apart.
DispatchInbound ==
    { AckFrame, NakFrame, AckAbortFrame,
      PingResponseP120, PingResponsePacket(0, 3, 1, 80),
      data_packet(<< 1, 2 >>),
      GenericResponsePacket(ReliableUpdateSuccess, ReliableUpdate),
      ReadMemoryResponsePacket(Success, 2),
      ReadMemoryResponsePacket(Fail, 0),
      ResponsePacket(GetPropertyResponse, << Success, 1 >>),
      ResponsePacket(GetPropertyResponse, << Fail >>),
      ResponsePacket(FlashReadOnceResponse, << Success, 0 >>) }
    \cup { GenericResponsePacket(status, command_tag) :
             status \in { Success, Fail },
             command_tag \in { Reset, FlashEraseRegion, ReadMemory, WriteMemory,
                               ReliableUpdate, GetProperty } }

\* What the target may send while the caller runs ping: ping responses of the
\* supported version P1.2.0 and of P1.3.0, and packets of other kinds.
PingInbound ==
    { PingResponseP120, PingResponsePacket(0, 3, 1, 80),
      AckFrame, NakFrame, GenericResponsePacket(Success, Reset) }

\* Command frames the parser emits (their CRC is right) that no bootloader
\* should send: a payload of four bytes, a GenericResponse and a
\* ReadMemoryResponse of one word and a GenericResponse of three words, a
\* GetPropertyResponse with parameter count 0; and well-formed packets.
MalformedInbound ==
    { framing_packet(Type_Command, 4, << GenericResponse, 0, 0, 0 >>),
      ResponsePacket(GenericResponse, << Success >>),
      ResponsePacket(GenericResponse, << Success, Reset, 0 >>),
      ResponsePacket(ReadMemoryResponse, << Success >>),
      framing_packet(Type_Command, 8, << GetPropertyResponse, 0, 0, 0 >> \o PackL(Success)),
      GenericResponsePacket(Success, Reset),
      ResponsePacket(GetPropertyResponse, << Success >>),
      AckFrame, PingResponseP120 }

\* What the target may send while the caller runs reset.
ResetInbound == { AckFrame, GenericResponsePacket(Success, Reset) }

Inbound == IF op = "upload" THEN UploadInbound
           ELSE IF op = "read" THEN ReadInbound
           ELSE IF op = "dispatch" THEN DispatchInbound
           ELSE IF op = "ping" THEN PingInbound
           ELSE IF op = "malformed" THEN MalformedInbound
           ELSE IF op = "reset" THEN ResetInbound
           ELSE IF op = "stream" THEN { p_out[k] : k \in { n_in + 1 } \cap 1..Len(p_out) }
           ELSE {}

\* _data_callback, Type_Command branch: struct.Struct(...).unpack raises
\* struct.error unless it is given exactly the bytes of its format.  The
\* header '<BBBB' takes data[6:10] and the status '<L' data[10:14], so the
\* payload must have 8 bytes; a GenericResponse and a ReadMemoryResponse
\* unpack data[14:] as '<L'; a GetPropertyResponse whose parameter count is
\* not 1 unpacks data[14:] as '<{parameter_count - 1}L', and a count of 0
\* makes the format itself invalid.
UnpackRaises(data) ==
    LET payload == SliceFrom(data, 6)
    IN  \/ Len(payload) < 8
        \/ /\ payload[1] \in { GenericResponse, ReadMemoryResponse }
           /\ Len(payload) # 12
        \/ /\ payload[1] = GetPropertyResponse
           /\ payload[4] # 1
           /\ \/ payload[4] = 0
              \/ Len(payload) - 8 # 4 * (payload[4] - 1)

\* A dispatcher that sets the event of a GenericResponse whatever its status.
ResponseEvent_any_status(data) ==
    LET tag         == data[7]
        status_code == UnpackL(Slice(data, 10, 14))
    IN  IF tag = GenericResponse
        THEN LET command_tag == UnpackL(SliceFrom(data, 14))
             IN  IF command_tag = Reset THEN "reset_response_event"
                 ELSE IF command_tag = FlashEraseRegion
                 THEN "flash_erase_region_response_event"
                 ELSE IF command_tag = ReadMemory
                 THEN "read_memory_response_tag_event"
                 ELSE IF command_tag = WriteMemory
                 THEN "write_memory_response_event"
                 ELSE ""
        ELSE IF tag = ReadMemoryResponse /\ status_code = Success
        THEN "read_memory_response_event"
        ELSE ""

\* A dispatcher that takes a successful GenericResponse for ReadMemory for the
\* ReadMemoryResponse itself.
ResponseEvent_read_tag(data) ==
    LET tag         == data[7]
        status_code == UnpackL(Slice(data, 10, 14))
    IN  IF tag = GenericResponse
        THEN LET command_tag == UnpackL(SliceFrom(data, 14))
             IN  IF command_tag = Reset /\ status_code = Success
                 THEN "reset_response_event"
                 ELSE IF command_tag = FlashEraseRegion /\ status_code = Success
                 THEN "flash_erase_region_response_event"
                 ELSE IF command_tag = ReadMemory /\ status_code = Success
                 THEN "read_memory_response_event"
                 ELSE IF command_tag = WriteMemory /\ status_code = Success
                 THEN "write_memory_response_event"
                 ELSE ""
        ELSE IF tag = ReadMemoryResponse /\ status_code = Success
        THEN "read_memory_response_event"
        ELSE ""

\* _data_callback, Type_Command branch: the event the response sets ("": none)
ResponseEvent(data) ==
    LET tag         == data[7]
        status_code == UnpackL(Slice(data, 10, 14))
    IN  IF tag = GenericResponse
        THEN LET command_tag == UnpackL(SliceFrom(data, 14))
             IN  IF command_tag = Reset /\ status_code = Success
                 THEN "reset_response_event"
                 ELSE IF command_tag = FlashEraseRegion /\ status_code = Success
                 THEN "flash_erase_region_response_event"
                 ELSE IF command_tag = ReadMemory /\ status_code = Success
                 THEN "read_memory_response_tag_event"
                 ELSE IF command_tag = WriteMemory /\ status_code = Success
                 THEN "write_memory_response_event"
                 ELSE ""
        ELSE IF tag = ReadMemoryResponse /\ status_code = Success
        THEN "read_memory_response_event"
        ELSE ""

\* What the reader did in the _data_callback call it is in, in order.
Sent(frame) == [did |-> "send", frame |-> frame]
DidSet(e) == [did |-> "set", event |-> e]
Sends(trace) == SelectSeq(trace, LAMBDA x : x.did = "send")
Sets(trace) == SelectSeq(trace, LAMBDA x : x.did = "set")

\* The payload of a Data packet: the bytes after the six bytes of the header,
\* as many as the header's length field says.
PayloadOf(p) == Slice(p, 6, 6 + p[3] + 256 * p[4])

\* The reader takes packet p and enters _data_callback(p).
Dispatch(p) ==
    /\ rpc = "idle"
    /\ n_in < MaxInbound
    /\ p \in Inbound
    /\ p[1] = StartByte
    /\ r_data' = p
    /\ r_wire' = IF p[2] = Type_Nak THEN wire_last ELSE << >>
    /\ r_last' = IF p[2] = Type_Nak THEN last_send_packet ELSE << >>
    /\ n_in' = n_in + 1
    /\ m_dispatched' = IF p[2] = Type_Data THEN Append(m_dispatched, PayloadOf(p))
                                          ELSE m_dispatched
    /\ ping_seen' = IF p[2] = Type_PingResponse THEN ping_seen \cup { p } ELSE ping_seen
    /\ UNCHANGED << m_stored, msig >>

\* A reader step leaves the driver alone.
ReaderOnly == UNCHANGED << args, pc, loc, dsend, dout, pvars >>

\* Type_Ack: self._ack_response_event.set()
data_callback_ack(p) ==
    /\ Dispatch(p)
    /\ p[2] = Type_Ack
    /\ event' = Signalled("ack_response_event")
    /\ r_trace' = << DidSet("ack_response_event") >>
    /\ rpc' = "return"
    /\ UNCHANGED << last_send_packet, send_lock, memory_data, wire_last, r_arg >>
    /\ ReaderOnly

\* Type_Nak: if self._last_send_packet is not None
data_callback_nak(p) ==
    /\ Dispatch(p)
    /\ p[2] = Type_Nak
    /\ rpc' = IF last_send_packet # << >> THEN "nak_resend" ELSE "return"
    /\ r_trace' = << >>
    /\ UNCHANGED << shared, r_arg >>
    /\ ReaderOnly

\* Type_Nak: self._send(self._last_send_packet) -- the argument is read, _send is called
data_callback_nak_resend ==
    /\ rpc = "nak_resend"
    /\ r_arg' = last_send_packet
    /\ rpc' = "send"
    /\ UNCHANGED << shared, r_data, r_trace, r_wire, r_last, n_in >>
    /\ UNCHANGED mlog
    /\ ReaderOnly

\* As data_callback_ack_abort, by a dispatcher that takes an AckAbort for an ACK.
data_callback_ack_abort_as_ack(p) ==
    /\ Dispatch(p)
    /\ p[2] = Type_AckAbort
    /\ event' = Signalled("ack_response_event")
    /\ r_trace' = << DidSet("ack_response_event") >>
    /\ rpc' = "return"
    /\ UNCHANGED << last_send_packet, send_lock, memory_data, wire_last, r_arg >>
    /\ ReaderOnly

\* Type_AckAbort: logged
data_callback_ack_abort(p) ==
    /\ Dispatch(p)
    /\ p[2] = Type_AckAbort
    /\ r_trace' = << >>
    /\ rpc' = "return"
    /\ UNCHANGED << shared, r_arg >>
    /\ ReaderOnly

\* As data_callback_reply, with the ACK sent only for a Command packet whose
\* status is Success.
data_callback_reply_on_success(p) ==
    /\ Dispatch(p)
    /\ p[2] \in {Type_Command, Type_Data}
    /\ r_trace' = << >>
    /\ IF p[2] = Type_Command /\ UnpackL(Slice(p, 10, 14)) # Success
       THEN rpc' = "command" /\ UNCHANGED r_arg
       ELSE rpc' = "send" /\ r_arg' = AckFrame
    /\ UNCHANGED shared
    /\ ReaderOnly

\* Type_Command, Type_Data: self._ack() -- _send is called with the ACK frame
data_callback_reply(p) ==
    /\ Dispatch(p)
    /\ p[2] \in {Type_Command, Type_Data}
    /\ r_arg' = AckFrame
    /\ r_trace' = << >>
    /\ rpc' = "send"
    /\ UNCHANGED shared
    /\ ReaderOnly

\* _send, called by the reader: with self._send_lock: self._last_send_packet = data
reader_send_store ==
    /\ rpc = "send"
    /\ send_lock = "free"
    /\ send_lock' = "reader"
    /\ last_send_packet' = r_arg
    /\ rpc' = "send_implementation"
    /\ UNCHANGED << event, memory_data, wire_last, r_data, r_arg, r_trace, r_wire,
                    r_last, n_in >>
    /\ UNCHANGED mlog
    /\ ReaderOnly

\* Where _send returns to in _data_callback.
AfterSend(data) ==
    IF data[2] = Type_Command THEN "command"
    ELSE IF data[2] = Type_Data THEN "data"
    ELSE "return"

\* _send, called by the reader: self._send_implementation(data); the lock is
\* freed and _send returns into _data_callback
reader_send_implementation ==
    /\ rpc = "send_implementation"
    /\ wire_last' = r_arg
    /\ r_trace' = Append(r_trace, Sent(r_arg))
    /\ send_lock' = "free"
    /\ rpc' = AfterSend(r_data)
    /\ UNCHANGED << event, last_send_packet, memory_data, r_data, r_arg, r_wire, r_last,
                    n_in >>
    /\ UNCHANGED mlog
    /\ ReaderOnly

\* Type_Command: an unpack raises struct.error, which leaves _data_callback
data_callback_command_raises ==
    /\ rpc = "command"
    /\ UnpackRaises(r_data)
    /\ rpc' = "raised"
    /\ UNCHANGED << shared, r_data, r_arg, r_trace, r_wire, r_last, n_in >>
    /\ UNCHANGED mlog
    /\ ReaderOnly

\* BlhostSerial._serial_read_thread: the exception leaves the while loop, is
\* logged by the except clause around it, and the thread ends.
serial_read_thread_except ==
    /\ rpc = "raised"
    /\ rpc' = "ended"
    /\ UNCHANGED << shared, r_data, r_arg, r_trace, r_wire, r_last, n_in >>
    /\ UNCHANGED mlog
    /\ ReaderOnly

\* Type_Command: parse the header and the status, set the event of the response
data_callback_command ==
    /\ rpc = "command"
    /\ ~UnpackRaises(r_data)
    /\ LET e == ResponseEvent(r_data)
       IN  /\ event' = IF e # "" THEN Signalled(e) ELSE event
           /\ r_trace' = IF e # "" THEN Append(r_trace, DidSet(e)) ELSE r_trace
           /\ m_signal' = SetSignal(e)
    /\ rpc' = "return"
    /\ UNCHANGED << last_send_packet, send_lock, memory_data, wire_last, r_data, r_arg,
                    r_wire, r_last, n_in >>
    /\ UNCHANGED << m_dispatched, m_stored, ping_seen >>
    /\ ReaderOnly

\* As data_callback_data, with the payload put before the bytes stored so far.
data_callback_data_prepend ==
    /\ rpc = "data"
    /\ memory_data' = SliceFrom(r_data, 6) \o memory_data
    /\ m_stored' = Append(m_stored, PayloadOf(r_data))
    /\ rpc' = "data_set"
    /\ UNCHANGED << event, last_send_packet, send_lock, wire_last, r_data, r_arg, r_trace,
                    r_wire, r_last, n_in, m_dispatched, ping_seen, msig >>
    /\ ReaderOnly

\* Type_Data: self._memory_data += bytes(...unpack(data[6:]))
data_callback_data ==
    /\ rpc = "data"
    /\ memory_data' = memory_data \o SliceFrom(r_data, 6)
    /\ m_stored' = Append(m_stored, PayloadOf(r_data))
    /\ rpc' = "data_set"
    /\ UNCHANGED << event, last_send_packet, send_lock, wire_last, r_data, r_arg, r_trace,
                    r_wire, r_last, n_in, m_dispatched, ping_seen, msig >>
    /\ ReaderOnly

\* Type_Data: self._data_event.set()
data_callback_data_set ==
    /\ rpc = "data_set"
    /\ event' = Signalled("data_event")
    /\ r_trace' = Append(r_trace, DidSet("data_event"))
    /\ rpc' = "return"
    /\ UNCHANGED << last_send_packet, send_lock, memory_data, wire_last, r_data, r_arg,
                    r_wire, r_last, n_in >>
    /\ UNCHANGED mlog
    /\ ReaderOnly

\* A dispatcher that checks the protocol version before it sets the event.
data_callback_ping_response_checked(p) ==
    /\ Dispatch(p)
    /\ p[2] = Type_PingResponse
    /\ event' = IF p = PingResponseP120 THEN Signalled("ping_response_event") ELSE event
    /\ r_trace' = IF p = PingResponseP120 THEN << DidSet("ping_response_event") >>
                                          ELSE << >>
    /\ rpc' = "return"
    /\ UNCHANGED << last_send_packet, send_lock, memory_data, wire_last, r_arg >>
    /\ ReaderOnly

\* Type_PingResponse: self._ping_response_event.set()
data_callback_ping_response(p) ==
    /\ Dispatch(p)
    /\ p[2] = Type_PingResponse
    /\ event' = Signalled("ping_response_event")
    /\ r_trace' = << DidSet("ping_response_event") >>
    /\ rpc' = "return"
    /\ UNCHANGED << last_send_packet, send_lock, memory_data, wire_last, r_arg >>
    /\ ReaderOnly

\* _data_callback returns; the reader goes back to reading the transport.
data_callback_return ==
    /\ rpc = "return"
    /\ rpc' = "idle"
    /\ r_data' = << >> /\ r_arg' = << >> /\ r_trace' = << >>
    /\ r_wire' = << >> /\ r_last' = << >>
    /\ UNCHANGED << shared, n_in >>
    /\ UNCHANGED mlog
    /\ ReaderOnly

(***************************************************************************)
(* The engine running upload.                                              *)
(***************************************************************************)
UploadInit == EInit /\ op = "upload" /\ PIdle
ReadInit == EInit /\ op = "read" /\ PIdle

UploadReader ==
    \/ \E p \in UploadInbound : data_callback_ack(p)
    \/ \E p \in UploadInbound : data_callback_nak(p)
    \/ data_callback_nak_resend
    \/ \E p \in UploadInbound : data_callback_reply(p)
    \/ reader_send_store
    \/ reader_send_implementation
    \/ data_callback_command
    \/ \E p \in UploadInbound : data_callback_ping_response(p)
    \/ data_callback_return

UploadNext == upload \/ send_store \/ send_implementation \/ UploadReader

UploadSpec == UploadInit /\ [][UploadNext]_vars

(***************************************************************************)
(* The engine running upload, called with or without the keyword argument  *)
(* attempts.                                                               *)
(***************************************************************************)
\* The values of attempts a caller passes (None: it passes none).
AttemptsValues == { None, 0, 1, 2 }

\* The values of the reset switch a caller passes (None: it passes none).
ResetAfterValues == { None, 0, 1 }

\* The call upload(binary_filename, start_address, erase_byte_count,
\* attempts=..., reset=...): upload's parameters are binary_filename,
\* start_address, erase_byte_count, timeout and ping_repeat, so binding
\* another keyword argument raises TypeError at the call; otherwise the body
\* is entered.
upload_call ==
    /\ pc = "upload_call"
    /\ IF attempts # None \/ reset_after # None
       THEN /\ pc' = "raised"
            /\ loc' = [loc EXCEPT !.error = "TypeError"]
       ELSE /\ pc' = "upload"
            /\ UNCHANGED loc
    /\ UNCHANGED << event, dsend, yielded >>
    /\ DriverOnly

UploadCallInit ==
    /\ op = "upload"
    /\ file_data = FileOfLength(1)
    /\ byte_count = 0
    /\ ping_repeat = 1
    /\ attempts \in AttemptsValues
    /\ reset_after \in IF attempts = None THEN ResetAfterValues ELSE { None }
    /\ pc = "upload_call"
    /\ ERest
    /\ PIdle

UploadCallNext == upload_call \/ UploadNext

\* upload of a file of one chunk, with the signals of the erase and the
\* write watched.
PhaseInit ==
    /\ op = "upload"
    /\ file_data = FileOfLength(1)
    /\ byte_count = 0
    /\ ping_repeat = MaxPingRepeat
    /\ attempts = None /\ reset_after = None
    /\ pc = "upload"
    /\ EState("none")
    /\ PIdle

PhaseSpec == PhaseInit /\ [][UploadNext]_vars

UploadCallSpec == UploadCallInit /\ [][UploadCallNext]_vars

(***************************************************************************)
(* The engine running read.                                                *)
(***************************************************************************)
ReadReader ==
    \/ \E p \in ReadInbound : data_callback_reply(p)
    \/ reader_send_store
    \/ reader_send_implementation
    \/ data_callback_command
    \/ data_callback_data
    \/ data_callback_data_set
    \/ \E p \in ReadInbound : data_callback_ping_response(p)
    \/ data_callback_return

ReadNext == read \/ send_store \/ send_implementation \/ ReadReader

ReadSpec == ReadInit /\ [][ReadNext]_vars


(***************************************************************************)
(* The engine running ping, called by the user of the engine.              *)
(***************************************************************************)
\* ping: clear the event and send the ping frame
ping_call ==
    /\ pc = "ping"
    /\ ping_clear_send("ping_wait")
    /\ UNCHANGED << loc, yielded >>

\* ping: return self._ping_response_event.wait(timeout) -- True
ping_response ==
    /\ pc = "ping_wait"
    /\ event["ping_response_event"]
    /\ loc' = [loc EXCEPT !.ping_result = TRUE]
    /\ pc' = "done"
    /\ UNCHANGED << event, dsend, yielded >>
    /\ DriverOnly

\* ping: the wait timed out -- False
ping_timeout ==
    /\ pc = "ping_wait"
    /\ ~event["ping_response_event"]
    /\ loc' = [loc EXCEPT !.ping_result = FALSE]
    /\ pc' = "done"
    /\ UNCHANGED << event, dsend, yielded >>
    /\ DriverOnly

ping == ping_call \/ ping_response \/ ping_timeout

PingInit ==
    /\ op = "ping" /\ file_data = << >> /\ ping_repeat = 0 /\ byte_count = 0
    /\ attempts = None /\ reset_after = None
    /\ pc = "ping"
    /\ ERest
    /\ PIdle

PingReader ==
    \/ \E p \in PingInbound : data_callback_ack(p)
    \/ \E p \in PingInbound : data_callback_nak(p)
    \/ data_callback_nak_resend
    \/ \E p \in PingInbound : data_callback_reply(p)
    \/ reader_send_store
    \/ reader_send_implementation
    \/ data_callback_command
    \/ \E p \in PingInbound : data_callback_ping_response(p)
    \/ data_callback_return

PingNext == ping \/ send_store \/ send_implementation \/ PingReader

PingSpec == PingInit /\ [][PingNext]_vars

(***************************************************************************)
(* ping over a transport whose send may raise (a serial port that was      *)
(* unplugged, a CAN bus that is off): the with block of _send frees the    *)
(* lock and the exception leaves _send.                                    *)
(***************************************************************************)
\* As send_raises, by a _send that keeps the lock when the transport raises.
send_raises_holds ==
    /\ pc = "send_implementation"
    /\ pc' = "raised"
    /\ UNCHANGED << shared, args, loc, dsend, dout, rvars, mlog, pvars >>

\* _send, called by the driver: self._send_implementation(data) raises; the
\* with block frees the lock and the exception leaves ping
send_raises ==
    /\ pc = "send_implementation"
    /\ send_lock' = "free"
    /\ pc' = "raised"
    /\ UNCHANGED << event, last_send_packet, memory_data, wire_last, args, loc, dsend,
                    dout, rvars, mlog, pvars >>

\* _send, called by the reader: self._send_implementation(data) raises; the
\* with block frees the lock and the exception leaves _data_callback
reader_send_raises ==
    /\ rpc = "send_implementation"
    /\ send_lock' = "free"
    /\ rpc' = "raised"
    /\ UNCHANGED << event, last_send_packet, memory_data, wire_last, r_data, r_arg,
                    r_trace, r_wire, r_last, n_in >>
    /\ UNCHANGED mlog
    /\ ReaderOnly

\* The caller's thread, and the reader's.
LockDriver == ping \/ send_store \/ send_implementation \/ send_raises
LockReader == PingReader \/ reader_send_raises \/ serial_read_thread_except

LockNext == LockDriver \/ LockReader

\* A thread that waits for the lock gets it when it is free again and again,
\* and a call of the transport returns or raises.
LockSpec ==
    /\ PingInit /\ [][LockNext]_vars
    /\ SF_vars(send_store) /\ SF_vars(reader_send_store)
    /\ WF_vars(send_implementation \/ send_raises)
    /\ WF_vars(reader_send_implementation \/ reader_send_raises)

(***************************************************************************)
(* The engine with an idle driver: the reader dispatches what the target   *)
(* sends (a target that answers late, or one that someone else talks to).  *)
(***************************************************************************)
DispatchInit ==
    /\ op = "dispatch" /\ file_data = << >> /\ ping_repeat = 0 /\ byte_count = 0
    /\ attempts = None /\ reset_after = None
    /\ pc = "done"
    /\ ERest
    /\ PIdle

DispatchNext ==
    \/ \E p \in DispatchInbound : data_callback_ack(p)
    \/ \E p \in DispatchInbound : data_callback_nak(p)
    \/ data_callback_nak_resend
    \/ \E p \in DispatchInbound : data_callback_ack_abort(p)
    \/ \E p \in DispatchInbound : data_callback_reply(p)
    \/ reader_send_store
    \/ reader_send_implementation
    \/ data_callback_command
    \/ data_callback_data
    \/ data_callback_data_set
    \/ \E p \in DispatchInbound : data_callback_ping_response(p)
    \/ data_callback_return

DispatchSpec == DispatchInit /\ [][DispatchNext]_vars

(***************************************************************************)
(* The engine of a BlhostSerial with an idle driver and a target that      *)
(* sends malformed responses.                                              *)
(***************************************************************************)
MalformedInit ==
    /\ op = "malformed" /\ file_data = << >> /\ ping_repeat = 0 /\ byte_count = 0
    /\ attempts = None /\ reset_after = None
    /\ pc = "done"
    /\ ERest
    /\ PIdle

MalformedNext ==
    \/ \E p \in MalformedInbound : data_callback_ack(p)
    \/ \E p \in MalformedInbound : data_callback_reply(p)
    \/ reader_send_store
    \/ reader_send_implementation
    \/ data_callback_command
    \/ data_callback_command_raises
    \/ serial_read_thread_except
    \/ \E p \in MalformedInbound : data_callback_ping_response(p)
    \/ data_callback_return

MalformedSpec == MalformedInit /\ [][MalformedNext]_vars

(***************************************************************************)
(* The engine running reset, and the four operations of the caller with a  *)
(* target that answers the frame the driver sent last and may go silent at *)
(* any point.                                                              *)
(***************************************************************************)
\* reset: clear the event and send the Reset command
reset_call ==
    /\ pc = "reset"
    /\ event' = Cleared("reset_response_event")
    /\ CallSend(ResetFrame, "reset_wait")
    /\ UNCHANGED << loc, yielded >>
    /\ DriverOnly

\* reset: return self._reset_response_event.wait(timeout) -- True
reset_response ==
    /\ pc = "reset_wait"
    /\ event["reset_response_event"]
    /\ loc' = [loc EXCEPT !.reset_result = TRUE]
    /\ pc' = "done"
    /\ UNCHANGED << event, dsend, yielded >>
    /\ DriverOnly

\* A wait without a timeout: the caller blocks while the event is not set.
wait_forever ==
    /\ pc = "reset_wait"
    /\ ~event["reset_response_event"]
    /\ UNCHANGED vars

\* reset: the wait timed out -- False
reset_timeout ==
    /\ pc = "reset_wait"
    /\ ~event["reset_response_event"]
    /\ loc' = [loc EXCEPT !.reset_result = FALSE]
    /\ pc' = "done"
    /\ UNCHANGED << event, dsend, yielded >>
    /\ DriverOnly

reset == reset_call \/ reset_response \/ reset_timeout

\* What a target that follows the protocol sends after a frame of the driver:
\* a ping response after a Ping, the ACK and the response of the command
\* after a command, the ACK and the final response after a Data frame, the
\* response, the data and the final response after ReadMemory.
TargetAnswers ==
    [ ping  |-> { PingResponseP120 },
      erase |-> { AckFrame, GenericResponsePacket(Success, FlashEraseRegion) },
      write |-> { AckFrame, GenericResponsePacket(Success, WriteMemory) },
      reset |-> { AckFrame, GenericResponsePacket(Success, Reset) },
      read  |-> { GenericResponsePacket(Success, ReadMemory) } \cup ReadData ]

TargetAnswer ==
    IF d_sent = << >> THEN {}
    ELSE LET last == d_sent[Len(d_sent)]
         IN  IF last[2] = Type_Ping THEN TargetAnswers.ping
             ELSE IF last[2] = Type_Data THEN TargetAnswers.write
             ELSE IF last[7] = FlashEraseRegion THEN TargetAnswers.erase
             ELSE IF last[7] = WriteMemory THEN TargetAnswers.write
             ELSE IF last[7] = Reset THEN TargetAnswers.reset
             ELSE TargetAnswers.read \cup { ReadResponses[byte_count] }

SilentInit ==
    /\ op \in { "ping", "reset", "upload", "read" }
    /\ file_data = IF op = "upload" THEN FileOfLength(1) ELSE << >>
    /\ byte_count \in IF op = "read" THEN ByteCounts ELSE { 0 }
    /\ ping_repeat \in IF op = "upload" THEN { 0, MaxPingRepeat }
                     ELSE IF op = "read" THEN { 0, 1 } ELSE { 0 }
    /\ attempts = None /\ reset_after = None
    /\ pc = op
    /\ ERest
    /\ PIdle

\* The caller's thread.
SilentDriver == upload \/ read \/ ping \/ reset \/ send_store \/ send_implementation

\* The reader takes a packet the target sent.
SilentArrival ==
    \/ \E p \in TargetAnswer : data_callback_ack(p)
    \/ \E p \in TargetAnswer : data_callback_reply(p)
    \/ \E p \in TargetAnswer : data_callback_ping_response(p)

\* The reader inside _data_callback.
SilentDispatch ==
    \/ reader_send_store
    \/ reader_send_implementation
    \/ data_callback_command
    \/ data_callback_data
    \/ data_callback_data_set
    \/ data_callback_return

SilentNext == SilentDriver \/ SilentArrival \/ SilentDispatch

\* Both threads keep running; nothing makes the target send.
SilentSpec ==
    SilentInit /\ [][SilentNext]_vars /\ WF_vars(SilentDriver) /\ WF_vars(SilentDispatch)

(***************************************************************************)
(* upload with a target that answers, goes silent, or aborts: it may send  *)
(* AckAbort at any time.                                                   *)
(***************************************************************************)
AbortInit == SilentInit /\ op = "upload" /\ ping_repeat = MaxPingRepeat

AbortNext ==
    \/ upload \/ send_store \/ send_implementation
    \/ SilentArrival
    \/ \E p \in UploadInbound : data_callback_ack_abort(p)
    \/ reader_send_store
    \/ reader_send_implementation
    \/ data_callback_command
    \/ data_callback_return

AbortSpec == AbortInit /\ [][AbortNext]_vars

(***************************************************************************)
(* The parser under an inbound byte stream: the stream is a sequence of    *)
(* frames of the target, delivered to parse() in chunks of any size.       *)
(***************************************************************************)


\* Valid frames of every kind the parser emits.
ValidFrames ==
    { AckFrame, NakFrame, AckAbortFrame,
      PingResponsePacket(0, 2, 1, 80),
      command_packet(GenericResponse, 0, << >>),
      data_packet(<< 1, 2 >>),
      data_packet(<< >>) }

\* Long frames whose CRC field does not match.
CorruptFrames ==
    { CorruptCrc(data_packet(<< 1, 2 >>)) }

StreamFrames == ValidFrames \cup CorruptFrames

RECURSIVE Concat(_)
Concat(fs) == IF fs = <<>> THEN <<>> ELSE Head(fs) \o Concat(Tail(fs))

\* Offset of the end of frame k in the stream.
FrameEnd(k) == Len(Concat(SubSeq(p_frames, 1, k)))

PInit ==
    /\ p_frames \in UNION { [1..n -> StreamFrames] : n \in 1..MaxFrames }
    /\ p_stream = Concat(p_frames)
    /\ p_fed = 0
    /\ p_parser = ParserInit
    /\ p_out = <<>>
    /\ p_single = TRUE
    /\ p_bytewise = TRUE
    /\ CIdle
    /\ EIdle

\* One call parser(data) by the reader (BlhostSerial._serial_read_thread,
\* BlhostCanListener.on_message_received) with the next n bytes of the stream.
ParserFeed(n) ==
    /\ n \in 1..(Len(p_stream) - p_fed)
    /\ LET r == parse(p_parser, SubSeq(p_stream, p_fed + 1, p_fed + n))
       IN  /\ p_parser' = [data |-> r.data, data_len |-> r.data_len,
                           data_crc |-> r.data_crc]
           /\ p_out' = IF r.message # <<>> THEN Append(p_out, r.message) ELSE p_out
    /\ p_fed' = p_fed + n
    /\ p_single' = (p_fed = 0)
    /\ p_bytewise' = (p_bytewise /\ n = 1)
    /\ UNCHANGED << p_frames, p_stream, cvars, evars >>

PNext == \E n \in 1..(Len(p_stream) - p_fed) : ParserFeed(n)

ParserSpec == PInit /\ [][PNext]_vars

(***************************************************************************)
(* The reader thread as a whole: each chunk of the stream goes to the      *)
(* parser, and a packet the parser returned goes to _data_callback before  *)
(* the next chunk is read.  The driver runs no operation.                  *)
(***************************************************************************)
\* Frames of the target that pass the parser's check, of the kinds that make
\* _data_callback set an event, send an ACK or store data.
LinkValid ==
    { AckFrame, PingResponseP120, data_packet(<< 1, 2 >>),
      GenericResponsePacket(Success, WriteMemory) }

\* The long ones with a byte changed on the way, so that the check fails.
LinkCorrupt == { CorruptCrc(f) : f \in LinkValid \ { AckFrame } }

LinkFrames == LinkValid \cup LinkCorrupt

StreamInit ==
    /\ p_frames \in UNION { [1..n -> LinkFrames] : n \in 1..MaxFrames }
    /\ p_stream = Concat(p_frames)
    /\ p_fed = 0
    /\ p_parser = ParserInit
    /\ p_out = <<>>
    /\ p_single = TRUE
    /\ p_bytewise = TRUE
    /\ CIdle
    /\ op = "stream" /\ file_data = << >> /\ ping_repeat = 0 /\ byte_count = 0
    /\ attempts = None /\ reset_after = None
    /\ pc = "done"
    /\ ERest

\* data = parser(bytearray(data)): the reader is not inside _data_callback and
\* every packet the parser returned has been handed to it.
serial_read ==
    /\ rpc = "idle"
    /\ n_in = Len(p_out)
    /\ PNext

\* if data is not None: callback_func(data) -- Inbound is the packet the
\* parser returned last, until it is dispatched
StreamNext ==
    \/ serial_read
    \/ \E p \in Inbound : data_callback_ack(p)
    \/ \E p \in Inbound : data_callback_reply(p)
    \/ \E p \in Inbound : data_callback_ping_response(p)
    \/ reader_send_store
    \/ reader_send_implementation
    \/ data_callback_command
    \/ data_callback_data
    \/ data_callback_data_set
    \/ data_callback_return

StreamSpec == StreamInit /\ [][StreamNext]_vars

(***************************************************************************)
(* The parser under line noise followed by one frame.                      *)
(***************************************************************************)
\* The longest run of garbage bytes before the frame.
MaxGarbage == 2

\* Bytes other than the start byte: zero, the type byte of an ACK, 0xFF.
GarbageBytes == { 0, Type_Ack, 255 }

GarbageSeqs == UNION { [1..n -> GarbageBytes] : n \in 1..MaxGarbage }

\* A fresh parser; the stream is p_frames[1], a run of garbage, followed by
\* p_frames[2], one valid frame.
GInit ==
    /\ p_frames \in { << g, f >> : g \in GarbageSeqs, f \in ValidFrames }
    /\ p_stream = Concat(p_frames)
    /\ p_fed = 0
    /\ p_parser = ParserInit
    /\ p_out = <<>>
    /\ p_single = TRUE
    /\ p_bytewise = TRUE
    /\ CIdle
    /\ EIdle

GarbageSpec == GInit /\ [][PNext]_vars

(***************************************************************************)
(* Encode, then parse: _command_packet and _data_packet hand a frame to    *)
(* _send, and its bytes are fed to a fresh parser in chunks of any size.   *)
(***************************************************************************)
\* The longest payload handed to the encoder.
MaxPayload == 2

\* Payload bytes: zero, the start byte, the type byte of an ACK, 0xFF.
PayloadBytes == { 0, StartByte, Type_Ack, 255 }

Payloads == UNION { [1..n -> PayloadBytes] : n \in 0..MaxPayload }

\* The frame _data_packet(*a) or _command_packet(tag, 0, *a) builds.
Encode(type, tag, a) ==
    IF type = Type_Data THEN data_packet(a) ELSE command_packet(tag, 0, a)

\* The payload of that frame: what follows its six header bytes.
EncodedPayload(type, tag, a) ==
    IF type = Type_Data THEN a ELSE << tag, 0, 0, Len(a) >> \o a

RoundTripInit ==
    /\ c_type \in { Type_Command, Type_Data }
    /\ c_tag \in IF c_type = Type_Command THEN { ReadMemory, Reset } ELSE { 0 }
    /\ c_a \in Payloads
    /\ c_b = << >>
    /\ c_crc = [first |-> None, chained |-> None, whole |-> None]
    /\ c_pc = "encode"
    /\ p_frames = << >> /\ p_stream = << >> /\ p_fed = 0
    /\ p_parser = ParserInit /\ p_out = << >>
    /\ p_single = TRUE /\ p_bytewise = TRUE
    /\ EIdle

\* _framing_packet: the frame it builds becomes the stream of the parser.
encode ==
    /\ c_pc = "encode"
    /\ p_frames' = << Encode(c_type, c_tag, c_a) >>
    /\ p_stream' = Encode(c_type, c_tag, c_a)
    /\ c_pc' = "encoded"
    /\ UNCHANGED << c_type, c_tag, c_a, c_b, c_crc >>
    /\ UNCHANGED << p_fed, p_parser, p_out, p_single, p_bytewise, evars >>

RoundTripNext == encode \/ PNext

RoundTripSpec == RoundTripInit /\ [][RoundTripNext]_vars

(***************************************************************************)
(* crc16Xmodem called on A, on B starting from the CRC of A, and on A      *)
(* followed by B.                                                          *)
(***************************************************************************)
\* The longest byte sequence handed to crc16Xmodem as A or as B.
MaxCrcLen == 2

CrcBytes == { 0, 1, 128, 255 }

CrcSeqs == UNION { [1..n -> CrcBytes] : n \in 0..MaxCrcLen }

CrcInit ==
    /\ c_type = 0 /\ c_tag = 0
    /\ c_a \in CrcSeqs
    /\ c_b \in CrcSeqs
    /\ c_crc = [first |-> None, chained |-> None, whole |-> None]
    /\ c_pc = "crc"
    /\ p_frames = << >> /\ p_stream = << >> /\ p_fed = 0
    /\ p_parser = ParserInit /\ p_out = << >>
    /\ p_single = TRUE /\ p_bytewise = TRUE
    /\ EIdle

CodecOnly == UNCHANGED << c_type, c_tag, c_a, c_b, c_pc, p_frames, p_stream, p_fed,
                          p_parser, p_out, p_single, p_bytewise, evars >>

\* crc = crc16Xmodem(A)
crc_first ==
    /\ c_pc = "crc"
    /\ c_crc.first = None
    /\ c_crc' = [c_crc EXCEPT !.first = crc16Xmodem(c_a, 0)]
    /\ CodecOnly

\* crc = crc16Xmodem(B, crc)
crc_chained ==
    /\ c_pc = "crc"
    /\ c_crc.first # None
    /\ c_crc.chained = None
    /\ c_crc' = [c_crc EXCEPT !.chained = crc16Xmodem(c_b, c_crc.first)]
    /\ CodecOnly

\* crc16Xmodem(A + B)
crc_whole ==
    /\ c_pc = "crc"
    /\ c_crc.whole = None
    /\ c_crc' = [c_crc EXCEPT !.whole = crc16Xmodem(c_a \o c_b, 0)]
    /\ CodecOnly

CrcNext == crc_first \/ crc_chained \/ crc_whole

CrcSpec == CrcInit /\ [][CrcNext]_vars

(***************************************************************************)
(* Properties of the parser.                                               *)
(***************************************************************************)
\* The number of frames of the stream whose bytes have all been fed.
FramesFed == Cardinality({ k \in 1..Len(p_frames) : FrameEnd(k) <= p_fed })

\* C9: a valid frame fed to a fresh parser one byte per parse() call, or in
\* one parse() call, is emitted as exactly one packet, equal to the frame:
\* nothing is emitted before its last byte, and the frame itself once all
\* its bytes are fed.
C9_ByteFeedEqualsWholeFeed ==
    (Len(p_frames) = 1 /\ p_frames[1] \in ValidFrames /\ (p_bytewise \/ p_single))
        => p_out = IF p_fed = Len(p_stream) THEN << p_frames[1] >> ELSE << >>

\* A long frame has been fed byte by byte to its end and was emitted.
C9_Witness ==
    /\ Len(p_frames) = 1
    /\ p_frames[1] = command_packet(GenericResponse, 0, << >>)
    /\ p_bytewise /\ ~p_single
    /\ p_fed = Len(p_stream)
    /\ p_out = << p_frames[1] >>

\* C10: for any division of the stream into parse() calls, every frame whose
\* bytes have all been fed is emitted (valid CRC) or dropped (bad CRC) when
\* the call that delivered its last byte returns: the packets emitted are the
\* valid ones among the frames fed, and the buffer holds only the bytes fed
\* after the last of them.
C10_FedFramesSettled ==
    /\ p_out = SelectSeq(SubSeq(p_frames, 1, FramesFed), LAMBDA f : f \in ValidFrames)
    /\ Len(p_parser.data) = p_fed - FrameEnd(FramesFed)

(***************************************************************************)
(* The engine: NAK retransmission, the ACK of a response, upload.          *)
(***************************************************************************)
\* C1: every dispatched NAK causes exactly one retransmission, of the most
\* recent frame handed to the transport before the NAK was dispatched (the
\* frame the transport received last, or the frame of a _send that held the
\* lock, when the dispatch began), in every interleaving; a NAK dispatched
\* before any send causes no transmission.  Stated where the dispatcher
\* returns from a NAK.
C1_NakRetransmitsLastSent ==
    (rpc = "return" /\ r_data = NakFrame)
        => IF r_last = << >>
           THEN r_trace = << >>
           ELSE r_trace \in { << Sent(r_wire) >>, << Sent(r_last) >> }

\* C2: for a Command or Data packet, whatever its status, the dispatcher
\* hands exactly one frame to the transport, the ACK [0x5A, 0xA1], before it
\* sets any event for the packet and before it returns.
C2_AckBeforeSignalAndReturn ==
    (r_data # << >> /\ r_data[2] \in {Type_Command, Type_Data})
        => /\ \A k \in 1..Len(r_trace) :
                IF k = 1 THEN r_trace[k] = Sent(AckFrame) ELSE r_trace[k].did = "set"
           /\ rpc \in {"return", "command", "data", "data_set"}
                => Sends(r_trace) = << Sent(AckFrame) >>

\* The dispatcher is about to return from a response whose status is a failure:
\* it sent the ACK and set no event.
C2_Witness ==
    /\ rpc = "return"
    /\ r_data = ReadMemoryResponsePacket(Fail, 0)
    /\ r_trace = << Sent(AckFrame) >>

\* An erase, write or data frame.
IsFlashFrame(f) ==
    /\ f # << >>
    /\ \/ f[2] = Type_Data
       \/ f[2] = Type_Command /\ f[7] \in {FlashEraseRegion, WriteMemory}

\* C3: on every path of upload, when the terminal boolean is about to be
\* yielded a Reset command has been sent, after the last erase, write or data
\* frame: upload sent no such frame after its Reset, and the frame the
\* transport received last is no such frame.
C3_ResetAfterLastFrame ==
    pc = "upload_yield"
        => /\ \E k \in 1..Len(d_sent) :
                /\ d_sent[k] = ResetFrame
                /\ \A j \in (k + 1)..Len(d_sent) : ~IsFlashFrame(d_sent[j])
           /\ ~IsFlashFrame(wire_last)

C5_ResetTimeoutFails ==
    (op = "upload" /\ pc = "done" /\ ~loc.reset_result)
        => yielded[Len(yielded)] = Result(FALSE)

\* upload ended: every chunk was acknowledged, the WriteMemory status came
\* (no erase followed the data frame), the reset timed out, False was yielded.
C5_Witness ==
    /\ op = "upload" /\ pc = "done" /\ ~loc.reset_result
    /\ Len(d_sent) = 5
    /\ d_sent[4][2] = Type_Data
    /\ d_sent[5] = ResetFrame
    /\ yielded = << Progress(0, 1), Progress(1600, 16), Result(FALSE) >>

\* The progress values upload has yielded; their order: x <= y.
ProgressItems == SelectSeq(yielded, LAMBDA x : x.kind = "progress")
ProgressLe(x, y) == x.num * y.den <= y.num * x.den
\* len(binary_data) bytes in chunks of 32: the bytes sent after k chunks.
BytesAfter(k) == IF 32 * k < Len(loc.binary_data) THEN 32 * k ELSE Len(loc.binary_data)
AllChunksAcknowledged == loc.chunk_i = NumChunks(loc.binary_data, 32)

\* The first progress value is 0, each later one is bytes_sent / total * 100
\* after one more acknowledged chunk, they never decrease and none exceeds 100.
ProgressShape(P) ==
    /\ P[1] = Progress(0, 1)
    /\ \A k \in 2..Len(P) : P[k] = Progress(BytesAfter(k - 1) * 100, Len(loc.binary_data))
    /\ \A k \in 1..(Len(P) - 1) : ProgressLe(P[k], P[k + 1])
    /\ \A k \in 1..Len(P) : ProgressLe(P[k], Progress(100, 1))

\* C6: within one upload the progress values never decrease: the first is 0,
\* each later one is bytes_sent / total * 100 after one more acknowledged
\* chunk, none exceeds 100, and the last is 100 exactly when every chunk was
\* acknowledged.
C6_ProgressEndsAt100 ==
    (op = "upload" /\ ProgressItems # << >>)
        => LET P == ProgressItems
           IN  /\ ProgressShape(P)
               /\ ProgressLe(Progress(100, 1), P[Len(P)]) <=> AllChunksAcknowledged

\* C6, amended: ... and the last is 100 exactly when the data is not empty
\* and every chunk was acknowledged (an empty file has no chunk, and its only
\* progress value is 0).
C6_ProgressEndsAt100IfData ==
    (op = "upload" /\ ProgressItems # << >>)
        => LET P == ProgressItems
           IN  /\ ProgressShape(P)
               /\ ProgressLe(Progress(100, 1), P[Len(P)])
                    <=> (Len(loc.binary_data) > 0 /\ AllChunksAcknowledged)

\* Two chunks of a 48-byte file were acknowledged: 0 %, 66.7 %, 100 %.
C6_Witness ==
    /\ op = "upload"
    /\ Len(loc.binary_data) = 48
    /\ ProgressItems = << Progress(0, 1), Progress(3200, 48), Progress(4800, 48) >>

(***************************************************************************)
(* The engine: read.                                                       *)
(***************************************************************************)
\* C7: read yields a byte buffer only as its last item, and only when
\* _memory_data held exactly byte_count bytes where read compared the two;
\* every item before it is a progress number, and a read that ends otherwise
\* yields no buffer.
C7_BufferOnlyWhenComplete ==
    op = "read"
        => \A k \in 1..Len(yielded) :
                IF yielded[k].kind = "buffer"
                THEN k = Len(yielded) /\ pc = "done" /\ loc.memory_len = byte_count
                ELSE yielded[k].kind = "progress"

\* read ended with the buffer of byte_count bytes as its last item.
C7_Witness ==
    /\ op = "read" /\ pc = "done" /\ byte_count > 0
    /\ yielded # << >>
    /\ yielded[Len(yielded)].kind = "buffer"
    /\ Len(yielded[Len(yielded)].value) = byte_count
    /\ loc.memory_len = byte_count

C11_CorruptThenValid ==
    ( /\ Len(p_frames) = 2
      /\ p_frames[1] \in CorruptFrames
      /\ p_frames[2] \in ValidFrames
      /\ p_fed = Len(p_stream) )
        => p_out = << p_frames[2] >>

\* C12: a run of garbage bytes, none of them the start byte 0x5A, followed by
\* one valid frame F: for every division of the stream into parse() calls the
\* parser emits nothing before the last byte of F is fed and exactly one
\* packet, equal to F, once it is; no garbage byte is part of it.
C12_GarbageThenFrame ==
    p_out = IF p_fed = Len(p_stream) THEN << p_frames[2] >> ELSE << >>

\* Two garbage bytes and a Data frame, fed in more than one parse() call; the
\* frame was emitted and the buffer is empty.
C12_Witness ==
    /\ Len(p_frames[1]) = 2
    /\ p_frames[2] = data_packet(<< 1, 2 >>)
    /\ ~p_single
    /\ Len(p_parser.data) = 0
    /\ p_fed = Len(p_stream)
    /\ p_out = << data_packet(<< 1, 2 >>) >>

(***************************************************************************)
(* The dispatcher and the completion signals.                              *)
(***************************************************************************)
\* The status code of a Command packet, and the command tag of a
\* GenericResponse, as the target wrote them into the packet.
StatusOf(p) == UnpackL(Slice(p, 10, 14))
CommandTagOf(p) == UnpackL(Slice(p, 14, 18))

IsCommand(p) == p # << >> /\ p[2] = Type_Command
FailedCommand(p) == IsCommand(p) /\ StatusOf(p) # Success

\* The call the reader is in has done x.
InTrace(x) == \E k \in 1..Len(r_trace) : r_trace[k] = x

SpecificEvents ==
    { "reset_response_event", "flash_erase_region_response_event",
      "read_memory_response_tag_event", "write_memory_response_event",
      "read_memory_response_event" }

\* Packet p is a GenericResponse with status Success for command_tag.
IsGenericSuccess(p, command_tag) ==
    /\ IsCommand(p)
    /\ p[7] = GenericResponse
    /\ StatusOf(p) = Success
    /\ CommandTagOf(p) = command_tag

\* Packet p is the response that stands for signal e.
MatchingResponse(e, p) ==
    CASE e = "reset_response_event" -> IsGenericSuccess(p, Reset)
      [] e = "flash_erase_region_response_event" -> IsGenericSuccess(p, FlashEraseRegion)
      [] e = "read_memory_response_tag_event" -> IsGenericSuccess(p, ReadMemory)
      [] e = "write_memory_response_event" -> IsGenericSuccess(p, WriteMemory)
      [] e = "read_memory_response_event" ->
             IsCommand(p) /\ p[7] = ReadMemoryResponse /\ StatusOf(p) = Success

\* C14: each specific completion signal is set only by its matching response:
\* whatever the dispatcher has set in the call it is in matches the packet of
\* that call, and every step that raises reset_response, flash_erase_region,
\* read_memory_response_tag, write_memory_response or read_memory_response is
\* a step of the dispatch of a successful GenericResponse for Reset,
\* FlashEraseRegion, ReadMemory, WriteMemory, or of a successful
\* ReadMemoryResponse, respectively.
C14_SignalOnlyByMatchingResponse ==
    /\ [](\A e \in SpecificEvents : InTrace(DidSet(e)) => MatchingResponse(e, r_data))
    /\ [][\A e \in SpecificEvents :
              (event'[e] /\ ~event[e]) => MatchingResponse(e, r_data)]_vars

\* A successful ReadMemoryResponse set read_memory_response and nothing else:
\* read_memory_response_tag is still clear.
C14_Witness ==
    /\ rpc = "return"
    /\ r_data = ReadMemoryResponsePacket(Success, 2)
    /\ r_trace = << Sent(AckFrame), DidSet("read_memory_response_event") >>
    /\ event["read_memory_response_event"]
    /\ ~event["read_memory_response_tag_event"]
    /\ event["reset_response_event"]

\* The successful command responses: a GenericResponse with status Success for
\* Reset, FlashEraseRegion, ReadMemory, WriteMemory or ReliableUpdate, one with
\* status ReliableUpdateSuccess for ReliableUpdate, a ReadMemoryResponse or a
\* GetPropertyResponse with status Success.
SuccessfulResponse(p) ==
    /\ IsCommand(p)
    /\ \/ /\ p[7] = GenericResponse
          /\ \/ /\ StatusOf(p) = Success
                /\ CommandTagOf(p) \in { Reset, FlashEraseRegion, ReadMemory, WriteMemory,
                                         ReliableUpdate }
             \/ /\ StatusOf(p) = ReliableUpdateSuccess
                /\ CommandTagOf(p) = ReliableUpdate
       \/ /\ p[7] \in { ReadMemoryResponse, GetPropertyResponse }
          /\ StatusOf(p) = Success

\* C15: the catch-all signal get_command_response is set on every successful
\* command response and on no other: when the dispatcher returns from a
\* Command packet it has set get_command_response exactly if the packet is a
\* successful response.
C15_CatchAllSignal ==
    (rpc = "return" /\ IsCommand(r_data))
        => (InTrace(DidSet("get_command_response_event")) <=> SuccessfulResponse(r_data))

(***************************************************************************)
(* ping.                                                                   *)
(***************************************************************************)
\* C16: ping clears ping_response, transmits exactly the two bytes
\* [0x5A, 0xA6], and returns true if and only if a PingResponse packet is
\* dispatched after that clear and before the wait ends; the dispatcher sets
\* the signal for a PingResponse of any protocol version.
C16_PingTrueIffResponse ==
    /\ [](pc = "done" => d_sent = << << 90, 166 >> >>)
    /\ []((rpc = "return" /\ r_data # << >> /\ r_data[2] = Type_PingResponse)
              => r_trace = << DidSet("ping_response_event") >>)
    /\ [][(pc = "ping" /\ pc' # "ping") => ~event'["ping_response_event"]]_vars
    /\ [][(pc = "ping_wait" /\ pc' = "done")
              => (loc'.ping_result <=> ping_seen # {})]_vars

\* ping returned true although the only ping response dispatched since its
\* clear is one of the unsupported version P1.3.0, and a response of the
\* supported version P1.2.0 had been dispatched before the clear.
C16_Witness ==
    /\ op = "ping" /\ pc = "done"
    /\ loc.ping_result
    /\ ping_seen = { PingResponsePacket(0, 3, 1, 80) }
    /\ n_in = 2
    /\ d_sent = << PingFrame >>

(***************************************************************************)
(* The codec.                                                              *)
(***************************************************************************)
\* C17: every long frame the encoder produces (Command or Data), fed to a
\* fresh parser, is emitted as exactly one packet whose type byte and payload
\* bytes are the originals: nothing is emitted before the last byte is fed,
\* whatever the division into parse() calls, and the CRC the encoder wrote is
\* the CRC the parser computes.
C17_EncodeParseRoundTrip ==
    c_pc = "encoded" =>
        IF p_fed < Len(p_stream) THEN p_out = << >>
        ELSE /\ Len(p_out) = 1
             /\ p_out[1][2] = c_type
             /\ SliceFrom(p_out[1], 6) = EncodedPayload(c_type, c_tag, c_a)
             /\ p_parser = ParserInit

\* A Command frame with two parameter bytes, one of them the start byte, went
\* through the encoder and, in one parse() call, through the parser.
C17_Witness ==
    /\ c_pc = "encoded"
    /\ c_type = Type_Command /\ c_tag = ReadMemory
    /\ c_a = << StartByte, 255 >>
    /\ p_single /\ p_fed = Len(p_stream)
    /\ p_out = << command_packet(ReadMemory, 0, << StartByte, 255 >>) >>

\* C18: for all byte sequences A and B the CRC of A followed by B, from 0, is
\* the CRC of B computed from the CRC of A; every CRC lies in 0..0xFFFF; the
\* CRC of the empty sequence from 0 is 0.
C18_CrcChaining ==
    /\ c_crc.first # None =>
           /\ c_crc.first \in 0..65535
           /\ c_a = << >> => c_crc.first = 0
    /\ c_crc.chained # None => c_crc.chained \in 0..65535
    /\ c_crc.whole # None => c_crc.whole \in 0..65535
    /\ (c_crc.chained # None /\ c_crc.whole # None) => c_crc.chained = c_crc.whole

\* The three CRCs were computed for two non-empty sequences; the CRC of A is
\* not zero, so the chained call started from a non-zero value.
C18_Witness ==
    /\ c_pc = "crc"
    /\ c_a = << 128, 1 >> /\ c_b = << 255 >>
    /\ c_crc.first # None /\ c_crc.first # 0
    /\ c_crc.chained # None /\ c_crc.whole # None
    /\ c_crc.whole = c_crc.chained

(***************************************************************************)
(* upload and its argument attempts.                                       *)
(***************************************************************************)
\* The resets the driver has sent.
Resets == Len(SelectSeq(d_sent, LAMBDA f : f = ResetFrame))

\* C19: upload called with attempts >= 1 runs the attempt procedure at least
\* once and at most attempts times, with a reset after each attempt, and ends
\* with the final boolean result: when the call is over, upload has sent
\* between one and attempts Reset commands and the last item it yielded is
\* the result.
C19_AttemptsLoop ==
    (attempts # None /\ attempts >= 1 /\ pc \in { "done", "raised" })
        => /\ pc = "done"
           /\ Resets \in 1..attempts
           /\ yielded # << >>
           /\ yielded[Len(yielded)].kind = "result"

\* C20: upload called with attempts < 1 fails with an invalid-argument error
\* (ValueError) at entry: once the call has been made it has raised that
\* error, and the driver has handed no frame to the transport and yielded
\* nothing.
C20_InvalidAttemptsRejected ==
    (attempts # None /\ attempts < 1 /\ pc # "upload_call")
        => /\ pc = "raised"
           /\ loc.error = "ValueError"
           /\ d_sent = << >>
           /\ yielded = << >>

\* C21: upload called with the reset after the upload switched off sends no
\* Reset command, and its terminal boolean is the result of the attempt
\* alone: when the call is over it has ended normally, no Reset frame was sent
\* and the last item yielded is the result of _upload.
C21_NoResetWhenDisabled ==
    (reset_after = 0 /\ pc \in { "done", "raised" })
        => /\ pc = "done"
           /\ Resets = 0
           /\ yielded # << >>
           /\ yielded[Len(yielded)] = Result(loc.upload_result)

(***************************************************************************)
(* The dispatcher and malformed packets.                                   *)
(***************************************************************************)
\* C22: the dispatcher never raises into the reader, whatever packet the
\* parser emits, and the reader goes on dispatching: no dispatch ends in an
\* exception and the reader thread never ends.
C22_DispatcherNeverRaises == rpc \notin { "raised", "ended" }

(***************************************************************************)
(* Termination with a target that goes silent.                             *)
(***************************************************************************)
Terminated == pc \in { "done", "raised" }

\* What the operation gave its caller when the target never sent anything.
SilentResult ==
    (n_in = 0 /\ Terminated)
        => /\ pc = "done"
           /\ op = "ping" => ~loc.ping_result
           /\ op = "reset" => ~loc.reset_result
           /\ op = "read" => yielded = << >>
           /\ op = "upload" => yielded = << Result(FALSE) >>

\* C23: when the target stops sending, at any point, ping, reset, upload and
\* read terminate, every wait ending by its timeout: an operation that ended
\* stays ended and every operation ends; upload ends with a boolean as its
\* last item, and with a target that sent nothing ping and reset return
\* false, read yields nothing and upload yields false.
C23_TerminatesWhenSilent ==
    /\ [](SilentResult)
    /\ []((op = "upload" /\ Terminated)
            => (yielded # << >> /\ yielded[Len(yielded)].kind = "result"))
    /\ <>[](Terminated)

\* Some operation ended after the target had answered and then stopped.
C23_Witness ==
    /\ Terminated
    /\ n_in > 0 /\ n_in < MaxInbound
    /\ rpc = "idle"
    /\ op = "upload"
    /\ yielded = << Result(FALSE) >>
    /\ Len(d_sent) > 2

(***************************************************************************)
(* The phases of an upload attempt.                                        *)
(***************************************************************************)
\* The driver is handing a Data frame to the transport.
DataBeingSent ==
    /\ pc \in { "send", "send_implementation" }
    /\ send_data[2] = Type_Data

IsDataFrame(f) == f[2] = Type_Data
DataFramesSent == SelectSeq(d_sent, IsDataFrame)
NotPing(f) == f # PingFrame

\* The driver sent its pings first, then FlashEraseRegion, then WriteMemory,
\* and after them only Data frames.
PhasesInOrder ==
    LET np == SelectSeq(d_sent, NotPing)
    IN  /\ Len(np) >= 2
        /\ np[1] = EraseFrame
        /\ np[2] = WriteMemoryFrames[loc.binary_data]
        /\ \A i \in 3..Len(np) : IsDataFrame(np[i])
        /\ \A i \in 1..(Len(d_sent) - Len(np)) : d_sent[i] = PingFrame

\* upload hands a Data frame to the transport only after a ping response was
\* dispatched since the last ping, and flash_erase_region and
\* write_memory_response were each set after the transport had its command.
C24_DataAfterSignalsSent ==
    DataBeingSent
        => /\ ping_seen # {}
           /\ m_signal["flash_erase_region_response_event"] = "sent"
           /\ m_signal["write_memory_response_event"] = "sent"
           /\ PhasesInOrder

\* C24: upload hands a Data frame to the transport only after, in this order,
\* a ping succeeded, flash_erase_region was set after the clear that precedes
\* the FlashEraseRegion command, and write_memory_response was set after the
\* clear that precedes the WriteMemory command; when one of these waits timed
\* out the attempt has failed and no Data frame was sent.
C24_DataAfterPhases ==
    /\ DataBeingSent
        => /\ ping_seen # {}
           /\ m_signal["flash_erase_region_response_event"] # "none"
           /\ m_signal["write_memory_response_event"] # "none"
           /\ PhasesInOrder
    /\ (/\ pc = "upload_failed"
        /\ \E e \in SignalEvents : m_signal[e] = "none")
        => (DataFramesSent = << >> /\ ~loc.upload_result)

\* A Data frame is being sent after the erase response arrived while the
\* FlashEraseRegion command was still on its way to the transport.
C24_Witness ==
    /\ DataBeingSent
    /\ m_signal["flash_erase_region_response_event"] = "early"
    /\ m_signal["write_memory_response_event"] = "sent"

\* C25: in the data phase of upload the next Data frame is handed to the
\* transport only after ack_response_event was set following the clear that
\* preceded the Data frame before it: the driver is about to send frame k + 1
\* only with the event set, and never has more than one frame sent beyond the
\* acknowledged ones; when the wait for the ACK timed out no further Data
\* frame is sent and upload's result is False.
C25_NextFrameAfterAck ==
    op = "upload"
        => /\ (pc = "upload_chunk" /\ loc.chunk_i >= 1) => event["ack_response_event"]
           /\ Len(DataFramesSent) <= loc.chunk_i + 1
           /\ DataBeingSent => Len(DataFramesSent) = loc.chunk_i
           /\ (Len(DataFramesSent) = loc.chunk_i + 1 /\ pc # "upload_ack_wait")
                => /\ ~loc.upload_result
                   /\ pc = "done" => yielded[Len(yielded)] = Result(FALSE)

\* upload ended after the first of two Data frames was acknowledged and the
\* wait for the ACK of the second timed out.
C25_Witness ==
    /\ op = "upload" /\ pc = "done"
    /\ Len(DataFramesSent) = 2
    /\ loc.chunk_i = 1
    /\ yielded[Len(yielded)] = Result(FALSE)

\* _upload is in its data phase or in its last wait.
AfterWriteCleared ==
    \/ pc \in { "upload_chunk", "upload_ack_wait", "upload_final_wait" }
    \/ DataBeingSent

\* C26: the response that satisfied the first wait of upload on
\* write_memory_response_event never satisfies the last one: the event is
\* cleared after the first wait returned and before the first Data frame is
\* sent, so that from there on it is set only when a response set it after
\* that clear, and the last wait returned True only after such a set.
C26_TerminalWaitNeedsNewSet ==
    /\ (AfterWriteCleared /\ event["write_memory_response_event"])
            => m_signal["terminal_wait"] = "sent"
    /\ loc.upload_result => m_signal["terminal_wait"] = "sent"

\* The last wait returned True: one response satisfied the first wait, the
\* event was cleared, a second response set it again.
C26_Witness ==
    /\ pc = "upload_reset"
    /\ loc.upload_result
    /\ m_signal["write_memory_response_event"] = "sent"
    /\ m_signal["terminal_wait"] = "sent"

(***************************************************************************)
(* What upload writes.                                                     *)
(***************************************************************************)
\* The smallest multiple of 16 not below n, and the file contents padded
\* with 0xFF to that length.
PaddedLength(n) == CHOOSE m \in n..(n + 15) : m % 16 = 0
PaddedContents == file_data \o [k \in 1..(PaddedLength(Len(file_data)) - Len(file_data)) |-> 255]

\* The payloads of the Data frames the driver sent, in order.
PayloadsSent == [k \in 1..Len(DataFramesSent) |-> PayloadOf(DataFramesSent[k])]

\* The byte count a WriteMemory command announces (its second parameter).
AnnouncedLength(f) == UnpackL(Slice(f, 14, 18))

\* C27: the Data frames upload sends carry, in order, the file contents
\* padded with 0xFF to the smallest multiple of 16 bytes not below the file
\* length: every payload has 32 bytes except possibly the last, which has 1
\* to 32; after each frame the payloads together are the beginning of the
\* padded contents and after the last one all of them; the WriteMemory
\* command announces the padded length.
C27_PayloadsArePaddedFile ==
    /\ (op = "upload" /\ pc \in { "upload_ack_wait", "upload_final_wait" })
        => LET sent == Concat(PayloadsSent)
           IN  /\ \A k \in 1..Len(PayloadsSent) :
                    IF k < Len(PayloadsSent) THEN Len(PayloadsSent[k]) = 32
                                             ELSE Len(PayloadsSent[k]) \in 1..32
               /\ sent = SubSeq(PaddedContents, 1, Len(sent))
               /\ pc = "upload_final_wait" => sent = PaddedContents
    /\ (op = "upload" /\ pc = "upload_write_wait")
        => /\ d_sent[Len(d_sent)][7] = WriteMemory
           /\ AnnouncedLength(d_sent[Len(d_sent)]) = PaddedLength(Len(file_data))

\* All of a file of one byte was sent: one Data frame of 16 bytes, the byte
\* and fifteen 0xFF.
C27_Witness ==
    /\ op = "upload" /\ pc = "upload_final_wait"
    /\ Len(file_data) = 1
    /\ PayloadsSent = << << 1, 255, 255, 255, 255, 255, 255, 255,
                            255, 255, 255, 255, 255, 255, 255, 255 >> >>

(***************************************************************************)
(* The pings of upload and read.                                           *)
(***************************************************************************)
IsPing(f) == f = PingFrame
PingsSent == Len(SelectSeq(d_sent, IsPing))

\* Every ping of the loop failed (loc.i counts the pings that failed).
AllPingsFailed == loc.i >= ping_repeat

CommandsSent == SelectSeq(d_sent, NotPing)

\* C29: when upload is about to reset the target (no Reset command was sent
\* yet) and the attempt did not succeed, the last frame upload sent is the
\* clean-up FlashEraseRegion(start_address, erase_byte_count), sent after
\* every frame of the attempt; when the attempt succeeded the only
\* FlashEraseRegion upload sent is the one before WriteMemory, the frames
\* after it are WriteMemory and the Data frames, and the transport's last
\* frame is no FlashEraseRegion either.
C29_CleanupEraseIffFailed ==
    (op = "upload" /\ pc = "upload_reset")
        => /\ \A k \in 1..Len(d_sent) : d_sent[k] # ResetFrame
           /\ IF loc.upload_result
              THEN /\ CommandsSent[1] = EraseFrame
                   /\ CommandsSent[2] = WriteMemoryFrames[loc.binary_data]
                   /\ \A k \in 3..Len(CommandsSent) : IsDataFrame(CommandsSent[k])
                   /\ wire_last # EraseFrame
              ELSE /\ d_sent # << >>
                   /\ d_sent[Len(d_sent)] = EraseFrame

\* The attempt failed after a Data frame was sent and the clean-up erase
\* followed it.
C29_Witness ==
    /\ op = "upload" /\ pc = "upload_reset"
    /\ ~loc.upload_result
    /\ Len(DataFramesSent) >= 1
    /\ d_sent[Len(d_sent)] = EraseFrame

(***************************************************************************)
(* The data loop of read.                                                  *)
(***************************************************************************)
\* C30: in the data loop of read a progress value is yielded before every
\* wait, so that a read that reached the loop has yielded at least one; when
\* the wait timed out with read_memory_response_tag_event set, 100 is yielded
\* before the length is checked; when it timed out with the event not set the
\* sequence ends without a buffer.
C30_ReadLoop ==
    op = "read"
        => /\ pc \in { "read_data_wait", "read_data_clear", "read_check", "read_yield",
                         "raised" }
                => /\ yielded # << >>
                   /\ \A k \in 1..Len(yielded) : yielded[k].kind = "progress"
           /\ pc = "read_check"
                => /\ event["read_memory_response_tag_event"]
                   /\ yielded[Len(yielded)] = Progress(100, 1)
           /\ (pc = "done" /\ ~event["read_memory_response_tag_event"])
                => \A k \in 1..Len(yielded) : yielded[k].kind = "progress"

(***************************************************************************)
(* _send_lock.                                                             *)
(***************************************************************************)
\* C31: at most one thread at a time is inside the transport send of a frame
\* (the driver and the reader are never both in _send_implementation, and
\* whoever is there holds _send_lock), and _last_send_packet is the frame of
\* the send that acquired the lock last: the frame being sent while the lock
\* is held, the frame the transport received last while it is free.
C31_SendsSerialized ==
    /\ ~(pc = "send_implementation" /\ rpc = "send_implementation")
    /\ send_lock = "driver" <=> pc = "send_implementation"
    /\ send_lock = "reader" <=> rpc = "send_implementation"
    /\ send_lock = "driver" => last_send_packet = send_data
    /\ send_lock = "reader" => last_send_packet = r_arg
    /\ send_lock = "free" => last_send_packet = wire_last

\* The driver waits for the lock while the reader retransmits after a NAK.
C31_Witness ==
    /\ pc = "send"
    /\ rpc = "send_implementation"
    /\ r_data = NakFrame
    /\ send_data # r_arg

(***************************************************************************)
(* Clears and sets of the events.                                          *)
(***************************************************************************)
\* C32: no set of a signal is erased by a clear of the driver before the
\* driver observed it: a step of read that clears a signal either goes on to
\* send the frame whose response sets it, or is the clear that follows a wait
\* of the data loop, and the reader sets data_event at no time between the
\* return of that wait and the clear.
C32_NoSetErased ==
    [][ /\ \A e \in EventNames :
              (event[e] /\ ~event'[e])
                  => \/ pc' = "send"
                     \/ e = "data_event" /\ pc = "read_data_clear"
        /\ ~(pc = "read_data_clear" /\ rpc = "data_set" /\ rpc' = "return") ]_vars

(***************************************************************************)
(* The parser and the dispatcher together.                                 *)
(***************************************************************************)
\* The CRC field of a long packet is the CRC of its other bytes, and its
\* length is the one its header gives.
CrcMatches(p) ==
    IF p[2] = Type_PingResponse
    THEN /\ Len(p) = 10
         /\ crc16Xmodem(Slice(p, 0, 8), 0) = p[9] + 256 * p[10]
    ELSE /\ Len(p) = 6 + p[3] + 256 * p[4]
         /\ crc16Xmodem(Slice(p, 6, Len(p)), crc16Xmodem(Slice(p, 0, 4), 0))
                = p[5] + 256 * p[6]

\* The frames of the stream that are valid and whose last byte was fed.
CompleteValid ==
    { k \in 1..Len(p_frames) : FrameEnd(k) <= p_fed /\ p_frames[k] \in LinkValid }

\* The packets handed to _data_callback so far, and the event each one sets.
Dispatched == SubSeq(p_out, 1, n_in)
SignalOf(p) ==
    IF p[2] = Type_Ack THEN "ack_response_event"
    ELSE IF p[2] = Type_PingResponse THEN "ping_response_event"
    ELSE IF p[2] = Type_Data THEN "data_event"
    ELSE ResponseEvent(p)

\* C33: the parser returns only two-byte short frames and packets whose CRC
\* matched, each a valid frame of the stream whose last byte was fed, and
\* never more of them than such frames; an event is set only if a packet
\* that sets it was returned and dispatched, the only frame sent is the ACK
\* of a dispatched Command or Data packet, and the memory buffer holds the
\* payloads of dispatched Data packets and nothing else.  So the bytes of a
\* frame that failed the check, or that is not yet complete, set no event,
\* send no ACK and store nothing.
C33_EffectsOnlyOfCheckedPackets ==
    /\ \A j \in 1..Len(p_out) :
          /\ Len(p_out[j]) = 2 \/ CrcMatches(p_out[j])
          /\ \E k \in CompleteValid : p_frames[k] = p_out[j]
    /\ Len(p_out) <= Cardinality(CompleteValid)
    /\ \A e \in EventNames :
          event[e] => \E j \in 1..n_in : SignalOf(p_out[j]) = e
    /\ wire_last # << >>
          => /\ wire_last = AckFrame
             /\ \E j \in 1..n_in : p_out[j][2] \in { Type_Command, Type_Data }
    /\ memory_data = Concat(m_stored)
    /\ Len(m_stored) <= Len(m_dispatched)
    /\ m_stored = SubSeq(m_dispatched, 1, Len(m_stored))
    /\ m_dispatched = [j \in 1..Len(SelectSeq(Dispatched, IsDataFrame)) |->
                          PayloadOf(SelectSeq(Dispatched, IsDataFrame)[j])]

\* A frame whose check failed was fed to its end and left no trace; the
\* response that followed it was returned, dispatched and set its event.
C33_Witness ==
    /\ op = "stream"
    /\ Len(p_frames) = 2
    /\ p_frames[1] = CorruptCrc(data_packet(<< 1, 2 >>))
    /\ p_frames[2] = GenericResponsePacket(Success, WriteMemory)
    /\ p_fed = Len(p_stream)
    /\ n_in = 1
    /\ event["write_memory_response_event"]
    /\ ~event["data_event"]
    /\ memory_data = << >>
    /\ wire_last = AckFrame

(***************************************************************************)
(* The command frames the host emits.                                      *)
(***************************************************************************)
\* The parameter_count byte of a command frame, the number of bytes that
\* follow its command header, and its length field.
ParameterCount(f) == f[10]
ParameterBytes(f) == Len(f) - 10
LengthField(f) == f[3] + 256 * f[4]

\* C34: in every command frame the host emits the parameter_count byte is
\* the number of 32-bit words that follow the 4-byte command header, and the
\* length field is 4 + 4 * parameter_count; FlashEraseRegion and WriteMemory
\* carry parameter_count 2 and Reset carries 0.
C34_ParameterCountInWords ==
    \A k \in 1..Len(d_sent) :
        d_sent[k][2] = Type_Command
            => /\ 4 * ParameterCount(d_sent[k]) = ParameterBytes(d_sent[k])
               /\ LengthField(d_sent[k]) = 4 + 4 * ParameterCount(d_sent[k])
               /\ d_sent[k][7] \in { FlashEraseRegion, WriteMemory }
                      => ParameterCount(d_sent[k]) = 2
               /\ d_sent[k][7] = Reset => ParameterCount(d_sent[k]) = 0

(***************************************************************************)
(* AckAbort.                                                               *)
(***************************************************************************)
\* C35: the dispatch of an AckAbort packet changes no engine state: the call
\* sets and clears no event, sends nothing and leaves _last_send_packet and
\* the memory buffer as they are, and the driver is where it was; so an
\* upload leaves its data phase as failed only when the wait for the ACK or
\* the wait for the final WriteMemory response timed out.
C35_AckAbortChangesNothing ==
    /\ [](r_data = AckAbortFrame => rpc = "return" /\ r_trace = << >>)
    /\ [][ ((rpc = "idle" /\ r_data' = AckAbortFrame)
                \/ (r_data = AckAbortFrame /\ rpc' = "idle"))
              => UNCHANGED << shared, pc, loc, dsend, dout >> ]_vars
    /\ [][ (pc \in { "upload_ack_wait", "upload_final_wait" } /\ pc' = "upload_failed")
              => \/ pc = "upload_ack_wait" /\ ~event["ack_response_event"]
                 \/ pc = "upload_final_wait" /\ ~event["write_memory_response_event"] ]_vars

\* The target aborts the data phase: the AckAbort is dispatched while upload
\* waits for the ACK of its Data frame.
C35_Witness ==
    /\ r_data = AckAbortFrame
    /\ pc = "upload_ack_wait"
    /\ wire_last = DataFrames[loc.binary_data][0]
    /\ ~event["ack_response_event"]

(***************************************************************************)
(* Which response satisfies a wait.                                        *)
(***************************************************************************)
\* The steps in which a wait of upload on flash_erase_region_response_event
\* or write_memory_response_event returned True.
EraseWaitReturned == pc = "upload_erase_wait" /\ pc' = "upload_write"
WriteWaitReturned == pc = "upload_write_wait" /\ pc' = "upload_clear"
FinalWaitReturned == pc = "upload_final_wait" /\ pc' = "upload_reset"
CleanupWaitReturned ==
    /\ pc = "upload_cleanup_wait" /\ pc' = "upload_reset"
    /\ event["flash_erase_region_response_event"]

DriverSentFlashFrame ==
    /\ pc \notin { "send", "send_implementation" }
    /\ d_sent # << >>
    /\ d_sent[Len(d_sent)][2] \in { Type_Command, Type_Data }

\* When the target NAKs a Command or Data frame the driver sent, the frame
\* the dispatcher retransmits is that frame, also when the reader sent an ACK
\* between the driver's send and the dispatch of the NAK.  Stated where the
\* dispatcher reads the frame to retransmit.
C37_NakRetransmitsDriverFrame ==
    [][ (rpc = "nak_resend" /\ rpc' = "send" /\ DriverSentFlashFrame)
            => r_arg' = d_sent[Len(d_sent)] ]_vars

(***************************************************************************)
(* The buffer read emits.                                                  *)
(***************************************************************************)
\* What the caller of read holds after the last yield: read yields the
\* bytearray self._memory_data itself, no copy of it, and the engine binds
\* that one object for its lifetime (+= and clear() change it in place), so
\* the caller's buffer reads as _memory_data does.
CallerBuffer == memory_data

\* The byte buffer read emitted is not changed after it has been emitted:
\* neither a Data packet dispatched later nor the clear of a following read
\* alters the bytes the caller received.
C38_EmittedBufferUnchanged ==
    \A k \in 1..Len(yielded) :
        yielded[k].kind = "buffer" => CallerBuffer = yielded[k].value

(***************************************************************************)
(* The send lock.                                                          *)
(***************************************************************************)
\* C39: neither the driver nor the reader blocks forever on send_lock: a
\* thread that calls _send does not hold the lock (the NAK retransmission
\* and the ACK are sent by the dispatcher outside any held lock), the lock is
\* held exactly while its holder is in the transport's send, it is freed when
\* that send returns or raises, and a thread that waits for it gets it.
C39_NoBlockingOnSendLock ==
    /\ [](pc = "send" => send_lock # "driver")
    /\ [](rpc = "send" => send_lock # "reader")
    /\ [](send_lock = "driver" <=> pc = "send_implementation")
    /\ [](send_lock = "reader" <=> rpc = "send_implementation")
    /\ (send_lock # "free") ~> (send_lock = "free")
    /\ (pc = "send") ~> (pc = "send_implementation")
    /\ (rpc = "send") ~> (rpc = "send_implementation")

\* The transport raised in the driver's send; the reader, retransmitting on a
\* NAK, holds the lock afterwards.
C39_Witness ==
    /\ pc = "raised"
    /\ r_data = NakFrame
    /\ rpc = "send_implementation"
    /\ send_lock = "reader"

(***************************************************************************)
(* The parser's fields.                                                    *)
(***************************************************************************)
\* The type bytes of the frames that carry a length or a CRC.
LongTypes == { Type_PingResponse, Type_Command, Type_Data }

\* The call of parse took a frame of six bytes or more off the buffer: a long
\* frame was emitted (its CRC matched) or dropped (it did not).
LongFrameLeft ==
    Len(p_parser.data) + (p_fed' - p_fed) - Len(p_parser'.data) >= 6

\* C40: in every state of the parser, _data_crc is known only if _data_len
\* is; _data_len is known only if the buffer starts with 0x5A and the type
\* byte of a PingResponse, Command or Data frame, and it is 10 for a
\* PingResponse and 6 plus the little-endian length field otherwise; both
\* are unknown right after a long frame was emitted or dropped.
C40_ParserFields ==
    /\ [](p_parser.data_crc # None => p_parser.data_len # None)
    /\ [](p_parser.data_len # None
            => /\ Len(p_parser.data) >= 2
               /\ p_parser.data[1] = StartByte
               /\ p_parser.data[2] \in LongTypes
               /\ IF p_parser.data[2] = Type_PingResponse
                  THEN p_parser.data_len = 10
                  ELSE /\ Len(p_parser.data) >= 4
                       /\ p_parser.data_len
                            = 6 + p_parser.data[3] + 256 * p_parser.data[4])
    /\ [][ LongFrameLeft
            => p_parser'.data_len = None /\ p_parser'.data_crc = None ]_vars

\* A frame with a wrong CRC was dropped, both fields were reset, and the
\* parser holds the head of the next long frame, its length and its CRC.
C40_Witness ==
    /\ Len(p_frames) = 2
    /\ p_frames[1] \in CorruptFrames
    /\ p_out = << >>
    /\ p_fed >= FrameEnd(1) + 6
    /\ Len(p_parser.data) = p_fed - FrameEnd(1)
    /\ p_parser.data_len # None
    /\ p_parser.data_crc # None
====
